---- MODULE Spec2Model ----
(***************************************************************************)
(* A model of python-backend/buffer_manager.py: the rolling audio/video    *)
(* buffers fed through bounded ingest queues by writer threads, and the    *)
(* per-incident recording registry.                                        *)
(*                                                                         *)
(* Threads.  Capture threads call add_video_frame / add_audio_chunk;       *)
(* detection threads call the buffer reads and the incident-recording      *)
(* operations; the main thread calls start() and stop().  Each call is a   *)
(* sequence of steps: one step per queue operation, per lock acquisition   *)
(* and per critical-section part.                                          *)
(***************************************************************************)
EXTENDS Integers, Sequences, FiniteSets, TLC

(***************************************************************************)
(* Bounds of the model.  The capacities are the code's capacities scaled   *)
(* down (queue.Queue(maxsize=100); deque(maxlen=video_buffer_size * 30)    *)
(* and deque(maxlen=audio_buffer_size * 160), with the sample rate scaled  *)
(* to one sample per time unit).                                           *)
(***************************************************************************)
QueueMaxsize == 2
video_buffer_size == 2
audio_buffer_size == 2
MaxTime == 1
MaxSamples == 4
MaxStarts == 2
MaxCalls == 4
MaxWindowSamples == 2
MaxMonitorStarts == 2
MaxIncidents == 2

Producers == {"cap1", "cap2"}
Clients == {"det1", "det2"}
Main == "main"
Threads == Producers \cup Clients \cup {Main}
NoThread == "none"

IncidentIds == {"inc1", "inc2"}
IncidentTypes == {"fight"}

Modalities == {"video", "audio"}
WriterIds == 1..MaxStarts

\* app.py: the incidents put on SecurityMonitor.incident_queue, the threads
\* of one kind that start_monitoring has created
Incidents == 1..MaxIncidents
MonitorThreadIds == 1..MaxMonitorStarts

VARIABLES
  now,            \* time.time(), in whole time units
  is_running,     \* self.is_running
  video_queue,    \* self.video_queue, oldest first
  audio_queue,    \* self.audio_queue, oldest first
  video_buffer,   \* self.video_buffer, oldest first
  audio_buffer,   \* self.audio_buffer, oldest first
  video_lock,     \* owner of self.video_lock, or NoThread
  audio_lock,     \* owner of self.audio_lock, or NoThread
  video_thread,   \* self.video_thread: index of the latest thread, 0 = attribute not set
  audio_thread,   \* self.audio_thread
  writer_pc,      \* position of every process_*_buffer thread ever created
  writer_item,    \* frame_data / audio_data held by a writer between get and append
  pc,             \* position of every calling thread
  local,          \* local variables of the call a thread is in
  ret,            \* outcome of the last call a thread completed
  produced,       \* per modality, the number of samples handed to add_video_frame / add_audio_chunk
  video_hist,     \* history: the id of every sample appended to video_buffer, in order
  audio_hist,     \* history: the id of every sample appended to audio_buffer, in order
  incident_recordings, \* self.incident_recordings: a dict, in insertion order
  recording_lock, \* owner of self.recording_lock, or NoThread
  video_file,     \* per incident id, the frames written to <id>_video.mp4 since it was last opened
  audio_file,     \* per incident id, the chunks written to <id>_audio.wav since it was last opened
  metadata_file,  \* per incident id, the content of <id>_metadata.json (NoneMetadata: no file)
  video_handles,  \* per incident id, the number of cv2.VideoWriter objects open on its video file
  audio_handles,  \* per incident id, the number of wave writers open on its audio file
  calls,          \* number of calls made to the recording operations and to stop()
  created,        \* history: per id, the start calls that returned True since the id was last absent
  frame_calls,    \* history: per id, the add_incident_frame calls completed on the current recorder
  add_outcomes,   \* history: per id, how each add call completed on the current recorder ended, in order
  audio_calls,    \* history: per id, the add_incident_audio calls completed on the current recorder
  is_monitoring,  \* SecurityMonitor.is_monitoring
  buffer_manager, \* number of BufferManager objects start_monitoring has constructed (0: attribute not set)
  module_pc,      \* position of every monitor_module thread ever created
  incident_pc,    \* position of every process_incidents thread ever created
  incident_item,  \* the incident a process_incidents thread is handling (0: none)
  incident_queue, \* SecurityMonitor.incident_queue, oldest first
  detected,       \* number of incidents created by the monitor_module threads
  store,          \* the log store: the INSERT OR REPLACE statements executed, per detected incident and per recording
  handled         \* history: the incidents a process_incidents thread has finished handling

ingest_vars == <<video_queue, audio_queue, video_buffer, audio_buffer,
                 video_lock, audio_lock, writer_pc, writer_item,
                 produced, video_hist, audio_hist>>
manager_vars == <<is_running, video_thread, audio_thread>>
thread_vars == <<pc, local, ret>>
recorder_vars == <<incident_recordings, recording_lock, video_file, audio_file,
                   metadata_file, video_handles, audio_handles, calls,
                   created, frame_calls, audio_calls, add_outcomes>>
monitor_vars == <<is_monitoring, buffer_manager, module_pc, incident_pc,
                  incident_item, incident_queue, detected, store, handled>>
vars == <<now, ingest_vars, manager_vars, thread_vars, recorder_vars,
          monitor_vars>>

----------------------------------------------------------------------------
(* Values *)

NoSample == [id |-> 0, timestamp |-> 0]
NoLocal == [sample |-> NoSample, duration |-> 0, incident_id |-> "None",
            incident_type |-> "None", incident_ids |-> <<>>, listed |-> <<>>,
            caller |-> "None", outer |-> "None", video_len |-> 0,
            audio_len |-> 0]

\* the metadata dict of stop_incident_recording; NoneMetadata stands for None
NoneMetadata ==
  [incident_id |-> "None", type |-> "None", start_time |-> 0, end_time |-> 0,
   duration |-> 0, video_frames_count |-> 0, audio_chunks_count |-> 0]

\* a frame or chunk handed to add_incident_frame / add_incident_audio: a
\* payload that is none of the buffered samples' payloads
LivePayload == MaxSamples + 1
NoRet == [op |-> "none", out |-> "none", val |-> "None"]
Returned(op, v) == [op |-> op, out |-> "return", val |-> v]
Raised(op, e) == [op |-> op, out |-> "raise", val |-> e]

\* timestamp: float = None / duration: float = None
OptionalArgs == {[given |-> FALSE, value |-> 0]} \cup
                {[given |-> TRUE, value |-> v] : v \in 0..MaxTime}

\* deque(maxlen=video_buffer_size * 30) and deque(maxlen=audio_buffer_size *
\* 160): the capacities, with the assumed rates scaled to one sample a second
VideoMaxlen == video_buffer_size
AudioMaxlen == audio_buffer_size

----------------------------------------------------------------------------
(* queue.Queue(maxsize) and collections.deque(maxlen) *)

\* a queue that takes one entry more than maxsize
full_above_maxsize(q) == Len(q) > QueueMaxsize
\* Queue.full(): put_nowait raises queue.Full when qsize() >= maxsize
full(q) == Len(q) >= QueueMaxsize

empty(q) == Len(q) = 0

\* a full deque that discards the item being appended instead
deque_append_keeps_oldest(d, maxlen, x) ==
  IF Len(d) >= maxlen THEN d ELSE d \o <<x>>
\* deque.append with maxlen: a full deque discards its leftmost item
deque_append(d, maxlen, x) ==
  IF Len(d) >= maxlen THEN Tail(d) \o <<x>> ELSE d \o <<x>>

\* a comprehension that leaves out a sample exactly at the cutoff
window_after(buffer, cutoff_time) ==
  SelectSeq(buffer, LAMBDA x : x.timestamp > cutoff_time)
\* [x for x in buffer if x['timestamp'] >= cutoff_time]
window(buffer, cutoff_time) ==
  SelectSeq(buffer, LAMBDA x : x.timestamp >= cutoff_time)

----------------------------------------------------------------------------
Init ==
  /\ now = 0
  /\ is_running = FALSE
  /\ video_queue = <<>>
  /\ audio_queue = <<>>
  /\ video_buffer = <<>>
  /\ audio_buffer = <<>>
  /\ video_lock = NoThread
  /\ audio_lock = NoThread
  /\ video_thread = 0
  /\ audio_thread = 0
  /\ writer_pc = [m \in Modalities |-> [i \in WriterIds |-> "unborn"]]
  /\ writer_item = [m \in Modalities |-> [i \in WriterIds |-> NoSample]]
  /\ pc = [t \in Threads |-> "idle"]
  /\ local = [t \in Threads |-> NoLocal]
  /\ ret = [t \in Threads |-> NoRet]
  /\ produced = [m \in Modalities |-> 0]
  /\ video_hist = <<>>
  /\ audio_hist = <<>>
  /\ incident_recordings = <<>>
  /\ recording_lock = NoThread
  /\ video_file = [k \in IncidentIds |-> <<>>]
  /\ audio_file = [k \in IncidentIds |-> <<>>]
  /\ metadata_file = [k \in IncidentIds |-> NoneMetadata]
  /\ video_handles = [k \in IncidentIds |-> 0]
  /\ audio_handles = [k \in IncidentIds |-> 0]
  /\ calls = 0
  /\ created = [k \in IncidentIds |-> 0]
  /\ frame_calls = [k \in IncidentIds |-> 0]
  /\ add_outcomes = [k \in IncidentIds |-> <<>>]
  /\ audio_calls = [k \in IncidentIds |-> 0]
  /\ is_monitoring = FALSE
  /\ buffer_manager = 0
  /\ module_pc = [i \in MonitorThreadIds |-> "unborn"]
  /\ incident_pc = [i \in MonitorThreadIds |-> "unborn"]
  /\ incident_item = [i \in MonitorThreadIds |-> 0]
  /\ incident_queue = <<>>
  /\ detected = 0
  /\ store = [incidents |-> [n \in Incidents |-> 0],
              recordings |-> [k \in IncidentIds |-> 0]]
  /\ handled = {}

\* the clock advances
Tick ==
  /\ now < MaxTime
  /\ now' = now + 1
  /\ UNCHANGED <<ingest_vars, manager_vars, thread_vars, recorder_vars,
                 monitor_vars>>

Goto(t, label) == pc' = [pc EXCEPT ![t] = label]

Return(t, r) ==
  /\ pc' = [pc EXCEPT ![t] = "idle"]
  /\ local' = [local EXCEPT ![t] = NoLocal]
  /\ ret' = [ret EXCEPT ![t] = r]

----------------------------------------------------------------------------
(* add_video_frame / add_audio_chunk *)

\* {'frame': frame.copy(), 'timestamp': timestamp}: the payload is named by
\* its serial number within the modality
NewSample(m, a) ==
  [id |-> produced[m] + 1, timestamp |-> IF a.given THEN a.value ELSE now]

\* lines 57-66: the default timestamp and the first put_nowait
add_video_frame(t, a) ==
  /\ t \in Producers
  /\ pc[t] = "idle"
  /\ produced["video"] + produced["audio"] < MaxSamples
  /\ produced' = [produced EXCEPT !["video"] = @ + 1]
  /\ IF ~full(video_queue)
       THEN /\ video_queue' = Append(video_queue, NewSample("video", a))
            /\ Return(t, Returned("add_video_frame", "None"))
       ELSE /\ Goto(t, "avf_get")
            /\ local' = [local EXCEPT ![t].sample = NewSample("video", a)]
            /\ UNCHANGED <<video_queue, ret>>
  /\ UNCHANGED monitor_vars
  /\ UNCHANGED <<now, audio_queue, video_buffer, audio_buffer, video_lock,
                 audio_lock, writer_pc, writer_item, video_hist, audio_hist,
                 manager_vars, recorder_vars>>

\* line 69: get_nowait after queue.Full; queue.Empty is not caught
add_video_frame_get(t) ==
  /\ pc[t] = "avf_get"
  /\ IF empty(video_queue)
       THEN /\ Return(t, Raised("add_video_frame", "queue.Empty"))
            /\ UNCHANGED video_queue
       ELSE /\ video_queue' = Tail(video_queue)
            /\ Goto(t, "avf_put")
            /\ UNCHANGED <<local, ret>>
  /\ UNCHANGED monitor_vars
  /\ UNCHANGED <<now, audio_queue, video_buffer, audio_buffer, video_lock,
                 audio_lock, writer_pc, writer_item, produced, video_hist,
                 audio_hist, manager_vars, recorder_vars>>

\* a second put that does not look at the queue's size
add_video_frame_put_unbounded(t) ==
  /\ pc[t] = "avf_put"
  /\ video_queue' = Append(video_queue, local[t].sample)
  /\ Return(t, Returned("add_video_frame", "None"))
  /\ UNCHANGED monitor_vars
  /\ UNCHANGED <<now, audio_queue, video_buffer, audio_buffer, video_lock,
                 audio_lock, writer_pc, writer_item, produced, video_hist,
                 audio_hist, manager_vars, recorder_vars>>

\* lines 70-75: the second put_nowait; queue.Full is passed over
add_video_frame_put(t) ==
  /\ pc[t] = "avf_put"
  /\ IF full(video_queue)
       THEN UNCHANGED video_queue
       ELSE video_queue' = Append(video_queue, local[t].sample)
  /\ Return(t, Returned("add_video_frame", "None"))
  /\ UNCHANGED monitor_vars
  /\ UNCHANGED <<now, audio_queue, video_buffer, audio_buffer, video_lock,
                 audio_lock, writer_pc, writer_item, produced, video_hist,
                 audio_hist, manager_vars, recorder_vars>>

\* lines 79-88
add_audio_chunk(t, a) ==
  /\ t \in Producers
  /\ pc[t] = "idle"
  /\ produced["video"] + produced["audio"] < MaxSamples
  /\ produced' = [produced EXCEPT !["audio"] = @ + 1]
  /\ IF ~full(audio_queue)
       THEN /\ audio_queue' = Append(audio_queue, NewSample("audio", a))
            /\ Return(t, Returned("add_audio_chunk", "None"))
       ELSE /\ Goto(t, "aac_get")
            /\ local' = [local EXCEPT ![t].sample = NewSample("audio", a)]
            /\ UNCHANGED <<audio_queue, ret>>
  /\ UNCHANGED monitor_vars
  /\ UNCHANGED <<now, video_queue, video_buffer, audio_buffer, video_lock,
                 audio_lock, writer_pc, writer_item, video_hist, audio_hist,
                 manager_vars, recorder_vars>>

\* line 91
add_audio_chunk_get(t) ==
  /\ pc[t] = "aac_get"
  /\ IF empty(audio_queue)
       THEN /\ Return(t, Raised("add_audio_chunk", "queue.Empty"))
            /\ UNCHANGED audio_queue
       ELSE /\ audio_queue' = Tail(audio_queue)
            /\ Goto(t, "aac_put")
            /\ UNCHANGED <<local, ret>>
  /\ UNCHANGED monitor_vars
  /\ UNCHANGED <<now, video_queue, video_buffer, audio_buffer, video_lock,
                 audio_lock, writer_pc, writer_item, produced, video_hist,
                 audio_hist, manager_vars, recorder_vars>>

\* lines 92-97
add_audio_chunk_put(t) ==
  /\ pc[t] = "aac_put"
  /\ IF full(audio_queue)
       THEN UNCHANGED audio_queue
       ELSE audio_queue' = Append(audio_queue, local[t].sample)
  /\ Return(t, Returned("add_audio_chunk", "None"))
  /\ UNCHANGED monitor_vars
  /\ UNCHANGED <<now, video_queue, video_buffer, audio_buffer, video_lock,
                 audio_lock, writer_pc, writer_item, produced, video_hist,
                 audio_hist, manager_vars, recorder_vars>>

----------------------------------------------------------------------------
(* process_video_buffer / process_audio_buffer: one thread per start() *)

SetWriter(m, i, label) == writer_pc' = [writer_pc EXCEPT ![m][i] = label]

\* a loop that never tests the flag
process_video_buffer_test_unconditional(i) ==
  /\ writer_pc["video"][i] = "test"
  /\ SetWriter("video", i, "get")
  /\ UNCHANGED monitor_vars
  /\ UNCHANGED <<now, video_queue, audio_queue, video_buffer, audio_buffer,
                 video_lock, audio_lock, writer_item, produced, video_hist,
                 audio_hist, manager_vars, thread_vars, recorder_vars>>

\* line 101: while self.is_running
process_video_buffer_test(i) ==
  /\ writer_pc["video"][i] = "test"
  /\ SetWriter("video", i, IF is_running THEN "get" ELSE "exited")
  /\ UNCHANGED monitor_vars
  /\ UNCHANGED <<now, video_queue, audio_queue, video_buffer, audio_buffer,
                 video_lock, audio_lock, writer_item, produced, video_hist,
                 audio_hist, manager_vars, thread_vars, recorder_vars>>

\* a dequeue that leaves the entry in the queue
process_video_buffer_get_leaves(i) ==
  /\ writer_pc["video"][i] = "get"
  /\ SetWriter("video", i, "test")
  /\ UNCHANGED monitor_vars
  /\ UNCHANGED <<now, video_queue, audio_queue, video_buffer, audio_buffer,
                 video_lock, audio_lock, writer_item, produced, video_hist,
                 audio_hist, manager_vars, thread_vars, recorder_vars>>
\* lines 104, 110-111: get(timeout=1) returns the oldest entry, or times out
\* on an empty queue (queue.Empty: continue)
process_video_buffer_get(i) ==
  /\ writer_pc["video"][i] = "get"
  /\ IF empty(video_queue)
       THEN /\ SetWriter("video", i, "test")
            /\ UNCHANGED <<video_queue, writer_item>>
       ELSE /\ writer_item' = [writer_item EXCEPT !["video"][i] = Head(video_queue)]
            /\ video_queue' = Tail(video_queue)
            /\ SetWriter("video", i, "lock")
  /\ UNCHANGED monitor_vars
  /\ UNCHANGED <<now, audio_queue, video_buffer, audio_buffer, video_lock,
                 audio_lock, produced, video_hist, audio_hist, manager_vars,
                 thread_vars, recorder_vars>>

\* line 106: with self.video_lock
process_video_buffer_lock(i) ==
  /\ writer_pc["video"][i] = "lock"
  /\ video_lock = NoThread
  /\ video_lock' = "video_thread"
  /\ SetWriter("video", i, "append")
  /\ UNCHANGED monitor_vars
  /\ UNCHANGED <<now, video_queue, audio_queue, video_buffer, audio_buffer,
                 audio_lock, writer_item, produced, video_hist, audio_hist,
                 manager_vars, thread_vars, recorder_vars>>

\* line 108: self.video_buffer.append(frame_data), and the lock's release
process_video_buffer_append(i) ==
  /\ writer_pc["video"][i] = "append"
  /\ video_buffer' = deque_append(video_buffer, VideoMaxlen, writer_item["video"][i])
  /\ video_hist' = Append(video_hist, writer_item["video"][i].id)
  /\ writer_item' = [writer_item EXCEPT !["video"][i] = NoSample]
  /\ video_lock' = NoThread
  /\ SetWriter("video", i, "test")
  /\ UNCHANGED monitor_vars
  /\ UNCHANGED <<now, video_queue, audio_queue, audio_buffer, audio_lock,
                 produced, audio_hist, manager_vars, thread_vars, recorder_vars>>

\* line 117
process_audio_buffer_test(i) ==
  /\ writer_pc["audio"][i] = "test"
  /\ SetWriter("audio", i, IF is_running THEN "get" ELSE "exited")
  /\ UNCHANGED monitor_vars
  /\ UNCHANGED <<now, video_queue, audio_queue, video_buffer, audio_buffer,
                 video_lock, audio_lock, writer_item, produced, video_hist,
                 audio_hist, manager_vars, thread_vars, recorder_vars>>

\* lines 120, 126-127
process_audio_buffer_get(i) ==
  /\ writer_pc["audio"][i] = "get"
  /\ IF empty(audio_queue)
       THEN /\ SetWriter("audio", i, "test")
            /\ UNCHANGED <<audio_queue, writer_item>>
       ELSE /\ writer_item' = [writer_item EXCEPT !["audio"][i] = Head(audio_queue)]
            /\ audio_queue' = Tail(audio_queue)
            /\ SetWriter("audio", i, "lock")
  /\ UNCHANGED monitor_vars
  /\ UNCHANGED <<now, video_queue, video_buffer, audio_buffer, video_lock,
                 audio_lock, produced, video_hist, audio_hist, manager_vars,
                 thread_vars, recorder_vars>>

\* line 122
process_audio_buffer_lock(i) ==
  /\ writer_pc["audio"][i] = "lock"
  /\ audio_lock = NoThread
  /\ audio_lock' = "audio_thread"
  /\ SetWriter("audio", i, "append")
  /\ UNCHANGED monitor_vars
  /\ UNCHANGED <<now, video_queue, audio_queue, video_buffer, audio_buffer,
                 video_lock, writer_item, produced, video_hist, audio_hist,
                 manager_vars, thread_vars, recorder_vars>>

\* line 124
process_audio_buffer_append(i) ==
  /\ writer_pc["audio"][i] = "append"
  /\ audio_buffer' = deque_append(audio_buffer, AudioMaxlen, writer_item["audio"][i])
  /\ audio_hist' = Append(audio_hist, writer_item["audio"][i].id)
  /\ writer_item' = [writer_item EXCEPT !["audio"][i] = NoSample]
  /\ audio_lock' = NoThread
  /\ SetWriter("audio", i, "test")
  /\ UNCHANGED monitor_vars
  /\ UNCHANGED <<now, video_queue, audio_queue, video_buffer, video_lock,
                 produced, video_hist, manager_vars, thread_vars, recorder_vars>>

----------------------------------------------------------------------------
(* get_video_buffer / get_audio_buffer *)

\* lines 133-136: the default duration, then with self.video_lock
get_video_buffer(t, d) ==
  /\ t \in Clients
  /\ pc[t] = "idle"
  /\ video_lock = NoThread
  /\ video_lock' = t
  /\ local' = [local EXCEPT ![t].duration =
                  IF d.given THEN d.value ELSE video_buffer_size]
  /\ Goto(t, "gvb_read")
  /\ UNCHANGED monitor_vars
  /\ UNCHANGED <<now, video_queue, audio_queue, video_buffer, audio_buffer,
                 audio_lock, writer_pc, writer_item, produced, video_hist,
                 audio_hist, ret, manager_vars, recorder_vars>>

\* lines 137-146
get_video_buffer_read(t) ==
  /\ pc[t] = "gvb_read"
  /\ video_lock' = NoThread
  /\ Return(t, Returned("get_video_buffer", window(video_buffer, now - local[t].duration)))
  /\ UNCHANGED monitor_vars
  /\ UNCHANGED <<now, video_queue, audio_queue, video_buffer, audio_buffer,
                 audio_lock, writer_pc, writer_item, produced, video_hist,
                 audio_hist, manager_vars, recorder_vars>>

\* lines 150-153
get_audio_buffer(t, d) ==
  /\ t \in Clients
  /\ pc[t] = "idle"
  /\ audio_lock = NoThread
  /\ audio_lock' = t
  /\ local' = [local EXCEPT ![t].duration =
                  IF d.given THEN d.value ELSE audio_buffer_size]
  /\ Goto(t, "gab_read")
  /\ UNCHANGED monitor_vars
  /\ UNCHANGED <<now, video_queue, audio_queue, video_buffer, audio_buffer,
                 video_lock, writer_pc, writer_item, produced, video_hist,
                 audio_hist, ret, manager_vars, recorder_vars>>

\* lines 154-163
get_audio_buffer_read(t) ==
  /\ pc[t] = "gab_read"
  /\ audio_lock' = NoThread
  /\ Return(t, Returned("get_audio_buffer", window(audio_buffer, now - local[t].duration)))
  /\ UNCHANGED monitor_vars
  /\ UNCHANGED <<now, video_queue, audio_queue, video_buffer, audio_buffer,
                 video_lock, writer_pc, writer_item, produced, video_hist,
                 audio_hist, manager_vars, recorder_vars>>

----------------------------------------------------------------------------
(* start / stop of the buffer manager *)

\* lines 342-349: a new pair of writer threads on every call
start(t) ==
  /\ t = Main
  /\ pc[t] = "idle"
  /\ video_thread < MaxStarts
  /\ is_running' = TRUE
  /\ video_thread' = video_thread + 1
  /\ audio_thread' = audio_thread + 1
  /\ writer_pc' = [writer_pc EXCEPT !["video"][video_thread + 1] = "test",
                                    !["audio"][audio_thread + 1] = "test"]
  /\ Return(t, Returned("start", "None"))
  /\ UNCHANGED monitor_vars
  /\ UNCHANGED <<now, video_queue, audio_queue, video_buffer, audio_buffer,
                 video_lock, audio_lock, writer_item, produced, video_hist,
                 audio_hist, recorder_vars>>

keys(d) == [i \in 1..Len(d) |-> d[i].incident_id]

\* lines 355-358: the flag, then the ids listed without recording_lock
stop(t) ==
  /\ t = Main
  /\ pc[t] = "idle"
  /\ calls < MaxCalls
  /\ calls' = calls + 1
  /\ is_running' = FALSE
  /\ local' = [local EXCEPT ![t].incident_ids = keys(incident_recordings),
                            ![t].listed = keys(incident_recordings)]
  /\ Goto(t, "stop_loop")
  /\ UNCHANGED <<monitor_vars, add_outcomes>>
  /\ UNCHANGED <<now, ingest_vars, video_thread, audio_thread, ret,
                 incident_recordings, recording_lock, video_file, audio_file,
                 metadata_file, video_handles, audio_handles, created,
                 frame_calls, audio_calls>>

\* lines 363-368: join(timeout=5) returns when the thread has exited or after
\* the timeout, with no effect either way
stop_join(t) ==
  /\ pc[t] = "stop_loop"
  /\ local[t].incident_ids = <<>>
  /\ IF local[t].outer = "stop_monitoring"
       THEN Return(t, Returned("stop_monitoring", "All monitoring modules stopped"))
       ELSE Return(t, Returned("stop", "None"))
  /\ UNCHANGED monitor_vars
  /\ UNCHANGED <<now, ingest_vars, manager_vars, recorder_vars>>

----------------------------------------------------------------------------
(* self.incident_recordings: a dict keyed by incident id.  An entry holds   *)
(* the lengths of its video_frames and audio_chunks lists (nothing but      *)
(* len() is taken of them) and the state of its two writer objects:         *)
(* "None", "open", or "closed" once release() / close() has been called.    *)

has(d, k) == \E i \in 1..Len(d) : d[i].incident_id = k

get(d, k) == d[CHOOSE i \in 1..Len(d) : d[i].incident_id = k]

\* d[k] = e: a new key goes last, an existing key keeps its place
set(d, k, e) ==
  IF has(d, k)
    THEN [i \in 1..Len(d) |-> IF d[i].incident_id = k THEN e ELSE d[i]]
    ELSE Append(d, e)

\* del d[k]
del(d, k) == SelectSeq(d, LAMBDA e : e.incident_id # k)

\* entering the block without waiting for the lock
acquire_recording_lock_unguarded(t) ==
  /\ recording_lock' = t
\* with self.recording_lock: entered when no other thread is inside
acquire_recording_lock(t) ==
  /\ recording_lock = NoThread
  /\ recording_lock' = t

release_recording_lock == recording_lock' = NoThread

\* what the environment does to one call: every file operation succeeds, or
\* the named one raises
StartOutcomes == {"ok", "mkdir_error", "video_open_error", "audio_open_error"}
AddOutcomes == {"ok", "write_error"}
StopOutcomes == {"ok", "release_error", "close_error", "metadata_error"}

----------------------------------------------------------------------------
(* start_incident_recording *)

\* a start that is refused while the manager is not running
start_incident_recording_if_running(t, k, ty) ==
  /\ t \in Clients
  /\ pc[t] = "idle"
  /\ calls < MaxCalls
  /\ calls' = calls + 1
  /\ IF is_running
       THEN /\ acquire_recording_lock(t)
            /\ local' = [local EXCEPT ![t].incident_id = k, ![t].incident_type = ty]
            /\ Goto(t, "sir_check")
            /\ UNCHANGED ret
       ELSE /\ Return(t, Returned("start_incident_recording", FALSE))
            /\ UNCHANGED recording_lock
  /\ UNCHANGED <<monitor_vars, add_outcomes>>
  /\ UNCHANGED <<now, ingest_vars, manager_vars, incident_recordings,
                 video_file, audio_file, metadata_file, video_handles,
                 audio_handles, created, frame_calls, audio_calls>>
\* line 168: with self.recording_lock
start_incident_recording(t, k, ty) ==
  /\ t \in Clients
  /\ pc[t] = "idle"
  /\ calls < MaxCalls
  /\ calls' = calls + 1
  /\ acquire_recording_lock(t)
  /\ local' = [local EXCEPT ![t].incident_id = k, ![t].incident_type = ty]
  /\ Goto(t, "sir_check")
  /\ UNCHANGED <<monitor_vars, add_outcomes>>
  /\ UNCHANGED <<now, ingest_vars, manager_vars, ret, incident_recordings,
                 video_file, audio_file, metadata_file, video_handles,
                 audio_handles, created, frame_calls, audio_calls>>

\* a membership test in a critical section of its own: the lock is given up
\* before the entry is made
start_incident_recording_check_releases(t) ==
  /\ pc[t] = "sir_check"
  /\ release_recording_lock
  /\ IF has(incident_recordings, local[t].incident_id)
       THEN Return(t, Returned("start_incident_recording", FALSE))
       ELSE /\ Goto(t, "sir_create")
            /\ UNCHANGED <<local, ret>>
  /\ UNCHANGED <<monitor_vars, add_outcomes>>
  /\ UNCHANGED <<now, ingest_vars, manager_vars, incident_recordings,
                 video_file, audio_file, metadata_file, video_handles,
                 audio_handles, calls, created, frame_calls, audio_calls>>

\* lines 169-171: a duplicate start is rejected
start_incident_recording_check(t) ==
  /\ pc[t] = "sir_check"
  /\ IF has(incident_recordings, local[t].incident_id)
       THEN /\ release_recording_lock
            /\ Return(t, Returned("start_incident_recording", FALSE))
       ELSE /\ Goto(t, "sir_create")
            /\ UNCHANGED <<recording_lock, local, ret>>
  /\ UNCHANGED <<monitor_vars, add_outcomes>>
  /\ UNCHANGED <<now, ingest_vars, manager_vars, incident_recordings,
                 video_file, audio_file, metadata_file, video_handles,
                 audio_handles, calls, created, frame_calls, audio_calls>>

\* lines 178-186: the entry as it is first stored
NewRecording(k, ty) ==
  [incident_id |-> k, type |-> ty, start_time |-> now, video_frames |-> 0,
   audio_chunks |-> 0, video_writer |-> "None", audio_writer |-> "None"]

\* lines 173-210: mkdir, the entry, then the two writers; an exception
\* leaves what was done before it and returns False
start_incident_recording_create(t, o) ==
  /\ pc[t] = "sir_create"
  /\ LET k == local[t].incident_id
         e == NewRecording(k, local[t].incident_type)
         video_opened == o \in {"ok", "audio_open_error"}
         audio_opened == o = "ok"
     IN /\ incident_recordings' =
             IF o = "mkdir_error" THEN incident_recordings
             ELSE set(incident_recordings, k,
                      [e EXCEPT !.video_writer = IF video_opened THEN "open" ELSE "None",
                                !.audio_writer = IF audio_opened THEN "open" ELSE "None"])
        /\ video_file' = IF video_opened THEN [video_file EXCEPT ![k] = <<>>] ELSE video_file
        /\ video_handles' = IF video_opened THEN [video_handles EXCEPT ![k] = @ + 1]
                            ELSE video_handles
        /\ audio_file' = IF audio_opened THEN [audio_file EXCEPT ![k] = <<>>] ELSE audio_file
        /\ audio_handles' = IF audio_opened THEN [audio_handles EXCEPT ![k] = @ + 1]
                            ELSE audio_handles
        /\ created' = IF o = "ok" THEN [created EXCEPT ![k] = @ + 1] ELSE created
        /\ frame_calls' = IF o = "mkdir_error" THEN frame_calls
                          ELSE [frame_calls EXCEPT ![k] = 0]
        /\ audio_calls' = IF o = "mkdir_error" THEN audio_calls
                          ELSE [audio_calls EXCEPT ![k] = 0]
        /\ add_outcomes' = IF o = "mkdir_error" THEN add_outcomes
                           ELSE [add_outcomes EXCEPT ![k] = <<>>]
  /\ release_recording_lock
  /\ Return(t, Returned("start_incident_recording", o = "ok"))
  /\ UNCHANGED monitor_vars
  /\ UNCHANGED <<now, ingest_vars, manager_vars, metadata_file, calls>>

----------------------------------------------------------------------------
(* add_incident_frame / add_incident_audio *)

\* line 215
add_incident_frame(t, k) ==
  /\ t \in Clients
  /\ pc[t] = "idle"
  /\ calls < MaxCalls
  /\ calls' = calls + 1
  /\ acquire_recording_lock(t)
  /\ local' = [local EXCEPT ![t].incident_id = k]
  /\ Goto(t, "aif_body")
  /\ UNCHANGED <<monitor_vars, add_outcomes>>
  /\ UNCHANGED <<now, ingest_vars, manager_vars, ret, incident_recordings,
                 video_file, audio_file, metadata_file, video_handles,
                 audio_handles, created, frame_calls, audio_calls>>

\* a not-found branch that writes the frame to the id's video file all the same
add_incident_frame_notfound_writes ==
  /\ video_file' = [k \in IncidentIds |-> Append(video_file[k], LivePayload)]
  /\ UNCHANGED <<incident_recordings, frame_calls>>
\* lines 216-217: if incident_id not in self.incident_recordings: return
add_incident_frame_notfound ==
  UNCHANGED <<incident_recordings, video_file, frame_calls>>

\* a handler that gives the recording up: the video writer is released
add_incident_frame_except_releases(recording) ==
  [recording EXCEPT !.video_writer = "closed"]
\* lines 231-232: except Exception: print(...); the entry is as it was
add_incident_frame_except(recording) == recording

\* a store that replaces the list by one holding the new frame alone
append_video_frame_overwrites(recording) ==
  [recording EXCEPT !.video_frames = 1]
\* lines 226-229: recording['video_frames'].append({...})
append_video_frame(recording) ==
  [recording EXCEPT !.video_frames = @ + 1]

\* lines 216-232: an unknown id returns at once; write() on an open writer
\* may raise, and then the frame is not stored; a released cv2.VideoWriter
\* ignores write()
add_incident_frame_body(t, o) ==
  /\ pc[t] = "aif_body"
  /\ LET k == local[t].incident_id
         known == has(incident_recordings, k)
         recording == get(incident_recordings, k)
     IN /\ o = "write_error" => (known /\ recording.video_writer = "open")
        /\ IF ~known
             THEN add_incident_frame_notfound
             ELSE /\ video_file' =
                       IF recording.video_writer = "open" /\ o = "ok"
                         THEN [video_file EXCEPT ![k] = Append(@, LivePayload)]
                         ELSE video_file
                  /\ incident_recordings' =
                       IF o = "ok"
                         THEN set(incident_recordings, k,
                                  append_video_frame(recording))
                         ELSE set(incident_recordings, k,
                                  add_incident_frame_except(recording))
                  /\ frame_calls' = [frame_calls EXCEPT ![k] = @ + 1]
        /\ add_outcomes' =
             IF known
               THEN [add_outcomes EXCEPT
                       ![k] = Append(@, IF o = "ok" THEN "frame_ok" ELSE "frame_error")]
               ELSE add_outcomes
  /\ release_recording_lock
  /\ Return(t, Returned("add_incident_frame", "None"))
  /\ UNCHANGED monitor_vars
  /\ UNCHANGED <<now, ingest_vars, manager_vars, audio_file, metadata_file,
                 video_handles, audio_handles, calls, created, audio_calls>>

\* line 237
add_incident_audio(t, k) ==
  /\ t \in Clients
  /\ pc[t] = "idle"
  /\ calls < MaxCalls
  /\ calls' = calls + 1
  /\ acquire_recording_lock(t)
  /\ local' = [local EXCEPT ![t].incident_id = k]
  /\ Goto(t, "aia_body")
  /\ UNCHANGED <<monitor_vars, add_outcomes>>
  /\ UNCHANGED <<now, ingest_vars, manager_vars, ret, incident_recordings,
                 video_file, audio_file, metadata_file, video_handles,
                 audio_handles, created, frame_calls, audio_calls>>

\* lines 238-239: if incident_id not in self.incident_recordings: return
add_incident_audio_notfound ==
  UNCHANGED <<incident_recordings, audio_file, audio_calls>>

\* lines 238-254: writeframes() raises on an open writer when the write
\* fails, and always on a closed one
add_incident_audio_body(t, o) ==
  /\ pc[t] = "aia_body"
  /\ LET k == local[t].incident_id
         known == has(incident_recordings, k)
         recording == get(incident_recordings, k)
         raises == known /\ (\/ recording.audio_writer = "closed"
                             \/ recording.audio_writer = "open" /\ o = "write_error")
     IN /\ o = "write_error" => (known /\ recording.audio_writer = "open")
        /\ IF ~known
             THEN add_incident_audio_notfound
             ELSE /\ audio_file' =
                       IF recording.audio_writer = "open" /\ ~raises
                         THEN [audio_file EXCEPT ![k] = Append(@, LivePayload)]
                         ELSE audio_file
                  /\ incident_recordings' =
                       IF ~raises
                         THEN set(incident_recordings, k,
                                  [recording EXCEPT !.audio_chunks = @ + 1])
                         ELSE incident_recordings
                  /\ audio_calls' = [audio_calls EXCEPT ![k] = @ + 1]
        /\ add_outcomes' =
             IF known
               THEN [add_outcomes EXCEPT
                       ![k] = Append(@, IF raises THEN "audio_error" ELSE "audio_ok")]
               ELSE add_outcomes
  /\ release_recording_lock
  /\ Return(t, Returned("add_incident_audio", "None"))
  /\ UNCHANGED monitor_vars
  /\ UNCHANGED <<now, ingest_vars, manager_vars, video_file, metadata_file,
                 video_handles, audio_handles, calls, created, frame_calls>>

----------------------------------------------------------------------------
(* stop_incident_recording, called by a client or by stop() *)

\* line 259
stop_incident_recording(t, k) ==
  /\ t \in Clients
  /\ pc[t] = "idle"
  /\ calls < MaxCalls
  /\ calls' = calls + 1
  /\ acquire_recording_lock(t)
  /\ local' = [local EXCEPT ![t].incident_id = k, ![t].caller = "client"]
  /\ Goto(t, "sir_body")
  /\ UNCHANGED <<monitor_vars, add_outcomes>>
  /\ UNCHANGED <<now, ingest_vars, manager_vars, ret, incident_recordings,
                 video_file, audio_file, metadata_file, video_handles,
                 audio_handles, created, frame_calls, audio_calls>>

\* a metadata dict with the two counts exchanged
Metadata_counts_exchanged(recording, end_time) ==
  [incident_id |-> recording.incident_id, type |-> recording.type,
   start_time |-> recording.start_time, end_time |-> end_time,
   duration |-> end_time - recording.start_time,
   video_frames_count |-> recording.audio_chunks,
   audio_chunks_count |-> recording.video_frames]
\* lines 276-285
Metadata(recording, end_time) ==
  [incident_id |-> recording.incident_id, type |-> recording.type,
   start_time |-> recording.start_time, end_time |-> end_time,
   duration |-> end_time - recording.start_time,
   video_frames_count |-> recording.video_frames,
   audio_chunks_count |-> recording.audio_chunks]

\* the return of stop_incident_recording: to the client, or into the loop of
\* stop(), which discards the value
StopReturn(t, v) ==
  IF local[t].caller = "stop"
    THEN /\ Goto(t, "stop_loop")
         /\ local' = [local EXCEPT ![t].incident_id = "None", ![t].caller = "None"]
         /\ UNCHANGED ret
    ELSE Return(t, Returned("stop_incident_recording", v))

\* a not-found branch that leaves a metadata file behind
stop_incident_recording_notfound_writes(t) ==
  /\ StopReturn(t, NoneMetadata)
  /\ metadata_file' =
       [metadata_file EXCEPT ![local[t].incident_id] =
          [NoneMetadata EXCEPT !.incident_id = local[t].incident_id]]
  /\ UNCHANGED <<incident_recordings, video_handles, audio_handles, created>>
\* lines 260-261: no entry for the id: None, and nothing else
stop_incident_recording_notfound(t) ==
  /\ StopReturn(t, NoneMetadata)
  /\ UNCHANGED <<incident_recordings, metadata_file, video_handles,
                 audio_handles, created>>

\* lines 263-296: release, close, the metadata file, the del; an exception
\* leaves what was done before it and returns None.  wave's close() closes
\* the file even when it raises.
stop_incident_recording_found(t, o) ==
  LET k == local[t].incident_id
      recording == get(incident_recordings, k)
      released == recording.video_writer # "None" /\ o # "release_error"
      closed == recording.audio_writer # "None" /\ o # "release_error"
      written == o = "ok"
      metadata == Metadata(recording, now)
  IN /\ o = "release_error" => recording.video_writer # "None"
     /\ o = "close_error" => recording.audio_writer # "None"
     /\ video_handles' =
          IF released /\ recording.video_writer = "open"
            THEN [video_handles EXCEPT ![k] = @ - 1] ELSE video_handles
     /\ audio_handles' =
          IF closed /\ recording.audio_writer = "open"
            THEN [audio_handles EXCEPT ![k] = @ - 1] ELSE audio_handles
     /\ metadata_file' =
          IF written THEN [metadata_file EXCEPT ![k] = metadata] ELSE metadata_file
     /\ incident_recordings' =
          IF written THEN del(incident_recordings, k)
          ELSE set(incident_recordings, k,
                   [recording EXCEPT
                      !.video_writer = IF released THEN "closed" ELSE @,
                      !.audio_writer = IF closed THEN "closed" ELSE @])
     /\ created' = IF written THEN [created EXCEPT ![k] = 0] ELSE created
     /\ StopReturn(t, IF written THEN metadata ELSE NoneMetadata)

\* lines 259-300, under the lock
stop_incident_recording_body(t, o) ==
  /\ pc[t] = "sir_body"
  /\ IF has(incident_recordings, local[t].incident_id)
       THEN stop_incident_recording_found(t, o)
       ELSE o = "ok" /\ stop_incident_recording_notfound(t)
  /\ release_recording_lock
  /\ UNCHANGED <<monitor_vars, add_outcomes>>
  /\ UNCHANGED <<now, ingest_vars, manager_vars, video_file, audio_file, calls,
                 frame_calls, audio_calls>>

\* lines 359-360: for incident_id in incident_ids: stop_incident_recording
stop_next(t) ==
  /\ pc[t] = "stop_loop"
  /\ local[t].incident_ids # <<>>
  /\ acquire_recording_lock(t)
  /\ local' = [local EXCEPT ![t].incident_id = Head(local[t].incident_ids),
                            ![t].incident_ids = Tail(local[t].incident_ids),
                            ![t].caller = "stop"]
  /\ Goto(t, "sir_body")
  /\ UNCHANGED <<monitor_vars, add_outcomes>>
  /\ UNCHANGED <<now, ingest_vars, manager_vars, ret, incident_recordings,
                 video_file, audio_file, metadata_file, video_handles,
                 audio_handles, calls, created, frame_calls, audio_calls>>

----------------------------------------------------------------------------
(* get_incident_recording_status / get_status *)

\* the status dict of get_incident_recording_status; NoneStatus stands for
\* None
NoneStatus ==
  [incident_id |-> "None", type |-> "None", start_time |-> 0, duration |-> 0,
   video_frames_count |-> 0, audio_chunks_count |-> 0, is_active |-> FALSE]

\* lines 310-318
Status(recording, current_time) ==
  [incident_id |-> recording.incident_id, type |-> recording.type,
   start_time |-> recording.start_time,
   duration |-> current_time - recording.start_time,
   video_frames_count |-> recording.video_frames,
   audio_chunks_count |-> recording.audio_chunks, is_active |-> TRUE]

\* line 304: with self.recording_lock
get_incident_recording_status(t, k) ==
  /\ t \in Clients
  /\ pc[t] = "idle"
  /\ acquire_recording_lock(t)
  /\ local' = [local EXCEPT ![t].incident_id = k]
  /\ Goto(t, "girs_body")
  /\ UNCHANGED <<monitor_vars, add_outcomes>>
  /\ UNCHANGED <<now, ingest_vars, manager_vars, ret, incident_recordings,
                 video_file, audio_file, metadata_file, video_handles,
                 audio_handles, calls, created, frame_calls, audio_calls>>

\* a status read that takes the entry out of the registry
get_incident_recording_status_body_pops(t) ==
  /\ pc[t] = "girs_body"
  /\ incident_recordings' = del(incident_recordings, local[t].incident_id)
  /\ release_recording_lock
  /\ Return(t, Returned("get_incident_recording_status",
                        IF has(incident_recordings, local[t].incident_id)
                          THEN Status(get(incident_recordings, local[t].incident_id), now)
                          ELSE NoneStatus))
  /\ UNCHANGED <<monitor_vars, add_outcomes>>
  /\ UNCHANGED <<now, ingest_vars, manager_vars, video_file, audio_file,
                 metadata_file, video_handles, audio_handles, calls, created,
                 frame_calls, audio_calls>>
\* lines 305-319: None for an id with no entry, else the snapshot
get_incident_recording_status_body(t) ==
  /\ pc[t] = "girs_body"
  /\ release_recording_lock
  /\ Return(t, Returned("get_incident_recording_status",
                        IF has(incident_recordings, local[t].incident_id)
                          THEN Status(get(incident_recordings, local[t].incident_id), now)
                          ELSE NoneStatus))
  /\ UNCHANGED <<monitor_vars, add_outcomes>>
  /\ UNCHANGED <<now, ingest_vars, manager_vars, incident_recordings,
                 video_file, audio_file, metadata_file, video_handles,
                 audio_handles, calls, created, frame_calls, audio_calls>>

\* line 372: with self.video_lock
get_status(t) ==
  /\ t \in Clients
  /\ pc[t] = "idle"
  /\ video_lock = NoThread
  /\ video_lock' = t
  /\ Goto(t, "gs_video")
  /\ UNCHANGED <<monitor_vars, local, ret>>
  /\ UNCHANGED <<now, video_queue, audio_queue, video_buffer, audio_buffer,
                 audio_lock, writer_pc, writer_item, produced, video_hist,
                 audio_hist, manager_vars, recorder_vars>>

\* a get_status whose blocks are nested: the video lock is kept
get_status_video_keeps_lock(t) ==
  /\ pc[t] = "gs_video"
  /\ local' = [local EXCEPT ![t].video_len = Len(video_buffer)]
  /\ Goto(t, "gs_audio_lock")
  /\ UNCHANGED <<monitor_vars, ret>>
  /\ UNCHANGED <<now, video_queue, audio_queue, video_buffer, audio_buffer,
                 video_lock, audio_lock, writer_pc, writer_item, produced,
                 video_hist, audio_hist, manager_vars, recorder_vars>>
\* line 373: len(self.video_buffer), and the lock's release
get_status_video(t) ==
  /\ pc[t] = "gs_video"
  /\ local' = [local EXCEPT ![t].video_len = Len(video_buffer)]
  /\ video_lock' = NoThread
  /\ Goto(t, "gs_audio_lock")
  /\ UNCHANGED <<monitor_vars, ret>>
  /\ UNCHANGED <<now, video_queue, audio_queue, video_buffer, audio_buffer,
                 audio_lock, writer_pc, writer_item, produced, video_hist,
                 audio_hist, manager_vars, recorder_vars>>

\* line 375: with self.audio_lock
get_status_audio_lock(t) ==
  /\ pc[t] = "gs_audio_lock"
  /\ audio_lock = NoThread
  /\ audio_lock' = t
  /\ Goto(t, "gs_audio")
  /\ UNCHANGED <<monitor_vars, local, ret>>
  /\ UNCHANGED <<now, video_queue, audio_queue, video_buffer, audio_buffer,
                 video_lock, writer_pc, writer_item, produced, video_hist,
                 audio_hist, manager_vars, recorder_vars>>

\* line 376: len(self.audio_buffer), and the lock's release
get_status_audio(t) ==
  /\ pc[t] = "gs_audio"
  /\ local' = [local EXCEPT ![t].audio_len = Len(audio_buffer)]
  /\ audio_lock' = NoThread
  /\ Goto(t, "gs_recording_lock")
  /\ UNCHANGED <<monitor_vars, ret>>
  /\ UNCHANGED <<now, video_queue, audio_queue, video_buffer, audio_buffer,
                 video_lock, writer_pc, writer_item, produced, video_hist,
                 audio_hist, manager_vars, recorder_vars>>

\* line 378: with self.recording_lock
get_status_recording_lock(t) ==
  /\ pc[t] = "gs_recording_lock"
  /\ acquire_recording_lock(t)
  /\ Goto(t, "gs_recording")
  /\ UNCHANGED <<monitor_vars, add_outcomes, local, ret>>
  /\ UNCHANGED <<now, ingest_vars, manager_vars, incident_recordings,
                 video_file, audio_file, metadata_file, video_handles,
                 audio_handles, calls, created, frame_calls, audio_calls>>

\* lines 379-389: len(self.incident_recordings), the lock's release, and
\* the dict, without the durations and the directory derived from
\* constants
get_status_recording(t) ==
  /\ pc[t] = "gs_recording"
  /\ release_recording_lock
  /\ Return(t, Returned("get_status",
                        [running |-> is_running,
                         video_buffer_size |-> local[t].video_len,
                         audio_buffer_size |-> local[t].audio_len,
                         active_recordings |-> Len(incident_recordings)]))
  /\ UNCHANGED <<monitor_vars, add_outcomes>>
  /\ UNCHANGED <<now, ingest_vars, manager_vars, incident_recordings,
                 video_file, audio_file, metadata_file, video_handles,
                 audio_handles, calls, created, frame_calls, audio_calls>>

----------------------------------------------------------------------------
(* app.py: SecurityMonitor.  start_monitoring constructs a BufferManager   *)
(* and starts one monitor_module thread per module (one module here) and   *)
(* one process_incidents thread; nothing in app.py calls the buffer        *)
(* manager's start().                                                      *)

\* BufferManager(...): a new object replaces self.buffer_manager.  The model
\* holds the state of the one object the monitor refers to, so the step is
\* taken while no thread is inside a call on the old object.
NoBufferManagerCall ==
  /\ \A u \in Producers \cup Clients : pc[u] = "idle"
  /\ \A m \in Modalities, i \in WriterIds : writer_pc[m][i] \in {"unborn", "exited"}

\* a start_monitoring without the test of is_monitoring
start_monitoring_untested(t) ==
  /\ t = Main
  /\ pc[t] = "idle"
  /\ buffer_manager < MaxMonitorStarts
  /\ NoBufferManagerCall
  /\ is_monitoring' = TRUE
  /\ buffer_manager' = buffer_manager + 1
  /\ is_running' = FALSE
  /\ video_queue' = <<>>
  /\ audio_queue' = <<>>
  /\ video_buffer' = <<>>
  /\ audio_buffer' = <<>>
  /\ video_hist' = <<>>
  /\ audio_hist' = <<>>
  /\ video_lock' = NoThread
  /\ audio_lock' = NoThread
  /\ recording_lock' = NoThread
  /\ incident_recordings' = <<>>
  /\ created' = [k \in IncidentIds |-> 0]
  /\ module_pc' = [module_pc EXCEPT ![buffer_manager + 1] = "test"]
  /\ incident_pc' = [incident_pc EXCEPT ![buffer_manager + 1] = "test"]
  /\ Return(t, Returned("start_monitoring", "All monitoring modules started"))
  /\ UNCHANGED <<now, writer_pc, writer_item, produced, video_thread,
                 audio_thread, video_file, audio_file, metadata_file,
                 video_handles, audio_handles, calls, frame_calls,
                 audio_calls, add_outcomes, incident_item, incident_queue,
                 detected, store, handled>>
\* lines 116-149
start_monitoring(t) ==
  /\ t = Main
  /\ pc[t] = "idle"
  /\ IF is_monitoring
       THEN /\ Return(t, Returned("start_monitoring", "Monitoring already active"))
            /\ UNCHANGED <<ingest_vars, manager_vars, recorder_vars, monitor_vars>>
       ELSE /\ buffer_manager < MaxMonitorStarts
            /\ NoBufferManagerCall
            /\ is_monitoring' = TRUE
            /\ buffer_manager' = buffer_manager + 1
            /\ is_running' = FALSE
            /\ video_queue' = <<>>
            /\ audio_queue' = <<>>
            /\ video_buffer' = <<>>
            /\ audio_buffer' = <<>>
            /\ video_hist' = <<>>
            /\ audio_hist' = <<>>
            /\ video_lock' = NoThread
            /\ audio_lock' = NoThread
            /\ recording_lock' = NoThread
            /\ incident_recordings' = <<>>
            /\ created' = [k \in IncidentIds |-> 0]
            /\ module_pc' = [module_pc EXCEPT ![buffer_manager + 1] = "test"]
            /\ incident_pc' = [incident_pc EXCEPT ![buffer_manager + 1] = "test"]
            /\ Return(t, Returned("start_monitoring", "All monitoring modules started"))
            /\ UNCHANGED <<writer_pc, writer_item, produced, video_thread,
                           audio_thread, video_file, audio_file, metadata_file,
                           video_handles, audio_handles, calls, frame_calls,
                           audio_calls, add_outcomes, incident_item,
                           incident_queue, detected,
                           store, handled>>
  /\ UNCHANGED now

\* a stop_monitoring without the test of is_monitoring
stop_monitoring_untested(t) ==
  /\ t = Main
  /\ pc[t] = "idle"
  /\ is_monitoring' = FALSE
  /\ Goto(t, "sm_stop")
  /\ UNCHANGED <<now, ingest_vars, manager_vars, recorder_vars, buffer_manager,
                 module_pc, incident_pc, incident_item, incident_queue,
                 detected, store, handled, local, ret>>
\* lines 151-158
stop_monitoring(t) ==
  /\ t = Main
  /\ pc[t] = "idle"
  /\ IF ~is_monitoring
       THEN /\ Return(t, Returned("stop_monitoring", "Monitoring not active"))
            /\ UNCHANGED is_monitoring
       ELSE /\ is_monitoring' = FALSE
            /\ Goto(t, "sm_stop")
            /\ UNCHANGED <<local, ret>>
  /\ UNCHANGED <<now, ingest_vars, manager_vars, recorder_vars, buffer_manager,
                 module_pc, incident_pc, incident_item, incident_queue,
                 detected, store, handled>>

\* lines 161-168: self.buffer_manager.stop(), whose return is followed by
\* join(timeout=5) on every monitoring thread, with no effect
stop_monitoring_stop(t) ==
  /\ pc[t] = "sm_stop"
  /\ is_running' = FALSE
  /\ local' = [local EXCEPT ![t].incident_ids = keys(incident_recordings),
                            ![t].listed = keys(incident_recordings),
                            ![t].outer = "stop_monitoring"]
  /\ Goto(t, "stop_loop")
  /\ UNCHANGED <<now, ingest_vars, video_thread, audio_thread, ret,
                 recorder_vars, monitor_vars>>

\* line 173: while self.is_monitoring
monitor_module_test(i) ==
  /\ module_pc[i] = "test"
  /\ module_pc' = [module_pc EXCEPT ![i] = IF is_monitoring THEN "frame" ELSE "exited"]
  /\ UNCHANGED <<now, ingest_vars, manager_vars, thread_vars, recorder_vars,
                 is_monitoring, buffer_manager, incident_pc, incident_item,
                 incident_queue, detected, store, handled>>

ModuleResults == {"none", "detected", "raise"}

\* lines 175-194: process_frame() detects nothing, or detects and the
\* incident is put on the queue, or raises and the thread ends
monitor_module_frame(i, r) ==
  /\ module_pc[i] = "frame"
  /\ r \in ModuleResults
  /\ r = "detected" => detected < MaxIncidents
  /\ incident_queue' = IF r = "detected" THEN Append(incident_queue, detected + 1)
                       ELSE incident_queue
  /\ detected' = IF r = "detected" THEN detected + 1 ELSE detected
  /\ module_pc' = [module_pc EXCEPT ![i] = IF r = "raise" THEN "exited" ELSE "test"]
  /\ UNCHANGED <<now, ingest_vars, manager_vars, thread_vars, recorder_vars,
                 is_monitoring, buffer_manager, incident_pc, incident_item,
                 store, handled>>

\* line 198: while self.is_monitoring
process_incidents_test(i) ==
  /\ incident_pc[i] = "test"
  /\ incident_pc' = [incident_pc EXCEPT ![i] = IF is_monitoring THEN "get" ELSE "exited"]
  /\ UNCHANGED <<now, ingest_vars, manager_vars, thread_vars, recorder_vars,
                 is_monitoring, buffer_manager, module_pc, incident_item,
                 incident_queue, detected, store, handled>>

\* lines 201, 217-218: get(timeout=1)
process_incidents_get(i) ==
  /\ incident_pc[i] = "get"
  /\ IF empty(incident_queue)
       THEN /\ incident_pc' = [incident_pc EXCEPT ![i] = "test"]
            /\ UNCHANGED <<incident_queue, incident_item>>
       ELSE /\ incident_item' = [incident_item EXCEPT ![i] = Head(incident_queue)]
            /\ incident_queue' = Tail(incident_queue)
            /\ incident_pc' = [incident_pc EXCEPT ![i] = "log"]
  /\ UNCHANGED <<now, ingest_vars, manager_vars, thread_vars, recorder_vars,
                 is_monitoring, buffer_manager, module_pc, detected, store,
                 handled>>

\* log_storage.py lines 141-179: one INSERT OR REPLACE
log_incident(st, n) == [st EXCEPT !.incidents[n] = @ + 1]

\* line 204: self.log_storage.log_incident(incident)
process_incidents_log(i) ==
  /\ incident_pc[i] = "log"
  /\ store' = log_incident(store, incident_item[i])
  /\ incident_pc' = [incident_pc EXCEPT ![i] = "save"]
  /\ UNCHANGED <<now, ingest_vars, manager_vars, thread_vars, recorder_vars,
                 is_monitoring, buffer_manager, module_pc, incident_item,
                 incident_queue, detected, handled>>

SaveOutcomes == {"ok", "file_error"}

\* lines 207-215: save_incident writes the incident's files and then calls
\* log_incident itself (log_storage.py line 223), unless a file operation
\* raised before; then the message to the frontend
process_incidents_save(i, o) ==
  /\ incident_pc[i] = "save"
  /\ o \in SaveOutcomes
  /\ store' = IF o = "ok" THEN log_incident(store, incident_item[i]) ELSE store
  /\ handled' = handled \cup {incident_item[i]}
  /\ incident_item' = [incident_item EXCEPT ![i] = 0]
  /\ incident_pc' = [incident_pc EXCEPT ![i] = "test"]
  /\ UNCHANGED <<now, ingest_vars, manager_vars, thread_vars, recorder_vars,
                 is_monitoring, buffer_manager, module_pc, incident_queue,
                 detected>>

----------------------------------------------------------------------------
(* Next-state relations.  Next is every step of every thread.  The          *)
(* specifications below it are the same steps with the callers and the      *)
(* inputs of one part of the program: the two pipelines, the buffer reads,  *)
(* and the recording registry share no variable except through stop().      *)

DefaultArg == [given |-> FALSE, value |-> 0]

\* capture threads P calling with the timestamp arguments A
Capture(P, A) ==
  \E t \in P :
     \/ \E a \in A : add_video_frame(t, a)
     \/ add_video_frame_get(t)
     \/ add_video_frame_put(t)
     \/ \E a \in A : add_audio_chunk(t, a)
     \/ add_audio_chunk_get(t)
     \/ add_audio_chunk_put(t)

Writers ==
  \E i \in WriterIds :
     \/ process_video_buffer_test(i)
     \/ process_video_buffer_get(i)
     \/ process_video_buffer_lock(i)
     \/ process_video_buffer_append(i)
     \/ process_audio_buffer_test(i)
     \/ process_audio_buffer_get(i)
     \/ process_audio_buffer_lock(i)
     \/ process_audio_buffer_append(i)

\* detection threads R reading the buffers
Reads(R) ==
  \E t \in R :
     \/ \E d \in OptionalArgs : get_video_buffer(t, d)
     \/ get_video_buffer_read(t)
     \/ \E d \in OptionalArgs : get_audio_buffer(t, d)
     \/ get_audio_buffer_read(t)

\* detection threads R reading the status of the recordings and of the
\* manager
StatusReads(R) ==
  \E t \in R :
     \/ \E k \in IncidentIds : get_incident_recording_status(t, k)
     \/ get_incident_recording_status_body(t)
     \/ get_status(t)
     \/ get_status_video(t)
     \/ get_status_audio_lock(t)
     \/ get_status_audio(t)
     \/ get_status_recording_lock(t)
     \/ get_status_recording(t)

\* detection threads R recording incidents, the environment answering each
\* call with an outcome of So (start), Ao (add), Po (stop)
Recording(R, So, Ao, Po) ==
  \E t \in R :
     \/ \E k \in IncidentIds, ty \in IncidentTypes : start_incident_recording(t, k, ty)
     \/ start_incident_recording_check(t)
     \/ \E o \in So : start_incident_recording_create(t, o)
     \/ \E k \in IncidentIds : add_incident_frame(t, k)
     \/ \E o \in Ao : add_incident_frame_body(t, o)
     \/ \E k \in IncidentIds : add_incident_audio(t, k)
     \/ \E o \in Ao : add_incident_audio_body(t, o)
     \/ \E k \in IncidentIds : stop_incident_recording(t, k)

\* stop() and the stop_incident_recording body it shares with the clients
Stopping(Po) ==
  \E t \in Threads :
     \/ \E o \in Po : stop_incident_recording_body(t, o)
     \/ stop(t)
     \/ stop_next(t)
     \/ stop_join(t)

MonitorThreads ==
  \E i \in MonitorThreadIds :
     \/ monitor_module_test(i)
     \/ \E r \in ModuleResults : monitor_module_frame(i, r)
     \/ process_incidents_test(i)
     \/ process_incidents_get(i)
     \/ process_incidents_log(i)
     \/ \E o \in SaveOutcomes : process_incidents_save(i, o)

Next ==
  \/ Tick
  \/ Capture(Producers, OptionalArgs)
  \/ Writers
  \/ Reads(Clients)
  \/ StatusReads(Clients)
  \/ Recording(Clients, StartOutcomes, AddOutcomes, StopOutcomes)
  \/ Stopping(StopOutcomes)
  \/ start(Main)
  \/ start_monitoring(Main)
  \/ stop_monitoring(Main)
  \/ stop_monitoring_stop(Main)
  \/ MonitorThreads

Spec == Init /\ [][Next]_vars

\* the ingest path: two capture threads, the writer threads of one start(),
\* stop()
NextQueue ==
  \/ Capture(Producers, {DefaultArg})
  \/ Writers
  \/ (video_thread = 0 /\ start(Main))
  \/ stop(Main)
  \/ stop_join(Main)

SpecQueue == Init /\ [][NextQueue]_vars

\* the buffer reads: one capture thread passing any timestamp, the writer
\* threads, one reader passing any duration, the clock
NextWindow ==
  \/ Tick
  \/ (produced["video"] + produced["audio"] < MaxWindowSamples
        /\ Capture({"cap1"}, OptionalArgs))
  \/ Writers
  \/ (video_thread = 0 /\ start(Main))
  \/ Reads({"det1"})

SpecWindow == Init /\ [][NextWindow]_vars

\* the recording registry with every file operation succeeding
NextRec ==
  \/ Recording(Clients, {"ok"}, {"ok"}, {"ok"})
  \/ Stopping({"ok"})

SpecRec == Init /\ [][NextRec]_vars

\* the recording registry with file operations that may raise
NextRecFault ==
  \/ Recording(Clients, StartOutcomes, AddOutcomes, StopOutcomes)
  \/ Stopping(StopOutcomes)

SpecRecFault == Init /\ [][NextRecFault]_vars

\* a recording started over filled buffers: one capture thread, the writer
\* threads, one detection thread recording one incident
NextPreroll ==
  \/ (produced["video"] + produced["audio"] < MaxWindowSamples
        /\ Capture({"cap1"}, {DefaultArg}))
  \/ Writers
  \/ (video_thread = 0 /\ start(Main))
  \/ start_incident_recording("det1", "inc1", "fight")
  \/ start_incident_recording_check("det1")
  \/ start_incident_recording_create("det1", "ok")
  \/ add_incident_frame("det1", "inc1")
  \/ add_incident_frame_body("det1", "ok")
  \/ add_incident_audio("det1", "inc1")
  \/ add_incident_audio_body("det1", "ok")

SpecPreroll == Init /\ [][NextPreroll]_vars

\* the monitor's lifecycle and its threads
NextMonitor ==
  \/ start_monitoring(Main)
  \/ stop_monitoring(Main)
  \/ stop_monitoring_stop(Main)
  \/ stop_join(Main)
  \/ MonitorThreads

SpecMonitor == Init /\ [][NextMonitor]_vars

\* the monitor started once, and one detection thread recording one
\* incident on the monitor's buffer manager
NextStore ==
  \/ (buffer_manager = 0 /\ start_monitoring(Main))
  \/ stop_monitoring(Main)
  \/ stop_monitoring_stop(Main)
  \/ stop_join(Main)
  \/ MonitorThreads
  \/ stop_next(Main)
  \/ start_incident_recording("det1", "inc1", "fight")
  \/ start_incident_recording_check("det1")
  \/ start_incident_recording_create("det1", "ok")
  \/ stop_incident_recording("det1", "inc1")
  \/ \E t \in {"det1", Main} : stop_incident_recording_body(t, "ok")

SpecStore == Init /\ [][NextStore]_vars

\* stopping twice at every level: the monitor, the buffer manager, and one
\* detection thread recording one incident; the monitor's threads do not
\* run
NextStopTwice ==
  \/ start_monitoring(Main)
  \/ stop_monitoring(Main)
  \/ stop_monitoring_stop(Main)
  \/ stop(Main)
  \/ stop_next(Main)
  \/ stop_join(Main)
  \/ start_incident_recording("det1", "inc1", "fight")
  \/ start_incident_recording_check("det1")
  \/ start_incident_recording_create("det1", "ok")
  \/ stop_incident_recording("det1", "inc1")
  \/ \E t \in {"det1", Main} : stop_incident_recording_body(t, "ok")

SpecStopTwice == Init /\ [][NextStopTwice]_vars

\* start() and stop() called in any order, one capture thread, the writer
\* threads of every start()
NextRestart ==
  \/ (produced["video"] + produced["audio"] < MaxWindowSamples
        /\ Capture({"cap1"}, {DefaultArg}))
  \/ Writers
  \/ start(Main)
  \/ stop(Main)
  \/ stop_join(Main)

SpecRestart == Init /\ [][NextRestart]_vars

\* the users of the three locks: the writer threads, one detection thread
\* reading the status and starting and stopping a recording, and stop()
NextLocks ==
  \/ (produced["video"] = 0 /\ add_video_frame("cap1", DefaultArg))
  \/ (produced["audio"] = 0 /\ add_audio_chunk("cap1", DefaultArg))
  \/ Writers
  \/ (video_thread = 0 /\ start(Main))
  \/ get_status("det1")
  \/ get_status_video("det1")
  \/ get_status_audio_lock("det1")
  \/ get_status_audio("det1")
  \/ get_status_recording_lock("det1")
  \/ get_status_recording("det1")
  \/ start_incident_recording("det1", "inc1", "fight")
  \/ start_incident_recording_check("det1")
  \/ start_incident_recording_create("det1", "ok")
  \/ stop_incident_recording("det1", "inc1")
  \/ \E t \in {"det1", Main} : stop_incident_recording_body(t, "ok")
  \/ stop(Main)
  \/ stop_next(Main)
  \/ stop_join(Main)

SpecLocks == Init /\ [][NextLocks]_vars

\* recordings started before, during and after stop(): the manager started
\* once, one capture thread adding one frame and one chunk, the writer
\* threads, stop(), and one detection thread starting recordings
NextLateStart ==
  \/ (video_thread = 0 /\ start(Main))
  \/ (produced["video"] = 0 /\ add_video_frame("cap1", DefaultArg))
  \/ (produced["audio"] = 0 /\ add_audio_chunk("cap1", DefaultArg))
  \/ Writers
  \/ stop(Main)
  \/ stop_next(Main)
  \/ stop_incident_recording_body(Main, "ok")
  \/ stop_join(Main)
  \/ \E k \in IncidentIds : start_incident_recording("det1", k, "fight")
  \/ start_incident_recording_check("det1")
  \/ start_incident_recording_create("det1", "ok")

SpecLateStart == Init /\ [][NextLateStart]_vars

\* the read operations: one capture thread adding one frame and one chunk,
\* the writer threads moving them to the buffers, one detection thread
\* recording one incident, reading the buffers and reading the status
NextRead ==
  \/ (produced["video"] = 0 /\ add_video_frame("cap1", DefaultArg))
  \/ (produced["audio"] = 0 /\ add_audio_chunk("cap1", DefaultArg))
  \/ Writers
  \/ (video_thread = 0 /\ start(Main))
  \/ start_incident_recording("det1", "inc1", "fight")
  \/ start_incident_recording_check("det1")
  \/ start_incident_recording_create("det1", "ok")
  \/ add_incident_frame("det1", "inc1")
  \/ add_incident_frame_body("det1", "ok")
  \/ stop_incident_recording("det1", "inc1")
  \/ stop_incident_recording_body("det1", "ok")
  \/ \E d \in {DefaultArg} : get_video_buffer("det1", d)
  \/ get_video_buffer_read("det1")
  \/ \E d \in {DefaultArg} : get_audio_buffer("det1", d)
  \/ get_audio_buffer_read("det1")
  \/ StatusReads({"det1"})

SpecRead == Init /\ [][NextRead]_vars

\* the recording registry with sink writes that may raise, every other file
\* operation succeeding
NextAddFault ==
  \/ Recording(Clients, {"ok"}, AddOutcomes, {"ok"})
  \/ Stopping({"ok"})

SpecAddFault == Init /\ [][NextAddFault]_vars

\* the loop of one writer thread
process_video_buffer(i) ==
  \/ process_video_buffer_test(i)
  \/ process_video_buffer_get(i)
  \/ process_video_buffer_lock(i)
  \/ process_video_buffer_append(i)

process_audio_buffer(i) ==
  \/ process_audio_buffer_test(i)
  \/ process_audio_buffer_get(i)
  \/ process_audio_buffer_lock(i)
  \/ process_audio_buffer_append(i)

\* a started thread is scheduled again and again: a writer thread that can
\* take its next step eventually takes it
FairWriters ==
  \A i \in WriterIds :
     /\ WF_vars(process_video_buffer(i))
     /\ WF_vars(process_audio_buffer(i))

\* one start(), then stop(), with one capture thread feeding the queues
\* before and after
NextDrain ==
  \/ (produced["video"] + produced["audio"] < MaxWindowSamples
        /\ Capture({"cap1"}, {DefaultArg}))
  \/ Writers
  \/ (video_thread = 0 /\ start(Main))
  \/ stop(Main)
  \/ stop_join(Main)

SpecDrain == Init /\ [][NextDrain]_vars /\ FairWriters

\* no writer loop is running: none was started, or every one has exited
NoLiveWriter ==
  \A m \in Modalities, i \in WriterIds : writer_pc[m][i] \in {"unborn", "exited"}

\* the manager started, stopped and started again once its loops have
\* exited, with one capture thread adding one frame and one chunk at any
\* moment
NextFeed ==
  \/ (produced["video"] = 0 /\ add_video_frame("cap1", DefaultArg))
  \/ (produced["audio"] = 0 /\ add_audio_chunk("cap1", DefaultArg))
  \/ Writers
  \/ (NoLiveWriter /\ start(Main))
  \/ stop(Main)
  \/ stop_join(Main)

SpecFeed == Init /\ [][NextFeed]_vars /\ FairWriters

\* stop() running alone: the detection threads make their calls only while
\* stop() is not in progress, stop() begins only while none of them is inside
\* a call, and closing a writer may raise
NextShutdown ==
  \/ (pc[Main] = "idle"
        /\ Recording(Clients, {"ok"}, {"ok"}, {"ok", "release_error", "close_error"}))
  \/ \E o \in {"ok", "release_error", "close_error"} :
        \E t \in Threads : stop_incident_recording_body(t, o)
  \/ ((\A t \in Clients : pc[t] = "idle") /\ stop(Main))
  \/ stop_next(Main)
  \/ stop_join(Main)

SpecShutdown == Init /\ [][NextShutdown]_vars

----------------------------------------------------------------------------
(* Properties *)

Min(a, b) == IF a <= b THEN a ELSE b

ids(s) == [i \in 1..Len(s) |-> s[i].id]

LastN(s, n) == SubSeq(s, Len(s) - n + 1, Len(s))

InSeq(x, s) == \E i \in 1..Len(s) : s[i] = x

\* thread t takes a step
Steps(t) == pc'[t] # pc[t]

\* C4: each ring buffer never holds more than its capacity, and holds exactly
\* the most recently appended samples, in append order: the last
\* min(capacity, number appended) of everything the writer thread appended,
\* so an append to a full buffer evicts the single oldest sample.
C4_RingBufferRetainsMostRecent ==
  /\ Len(video_buffer) <= VideoMaxlen
  /\ ids(video_buffer) = LastN(video_hist, Min(VideoMaxlen, Len(video_hist)))
  /\ Len(audio_buffer) <= AudioMaxlen
  /\ ids(audio_buffer) = LastN(audio_hist, Min(AudioMaxlen, Len(audio_hist)))

\* more video frames have been appended than the buffer holds
C4_Witness ==
  /\ Len(video_hist) > VideoMaxlen
  /\ Len(video_buffer) = VideoMaxlen

\* what one step of a call that found its queue full does to the queue q
\* (q2 after the step): get_nowait removes the oldest entry or raises
\* queue.Empty on an empty queue; the second put_nowait enqueues the new
\* sample last or, on a queue that is full again, skips it.
OverflowStep(t, op, get_label, put_label, q, q2) ==
  /\ (Steps(t) /\ pc[t] = get_label /\ ~empty(q)) =>
        (q2 = Tail(q) /\ pc'[t] = put_label)
  /\ (Steps(t) /\ pc[t] = get_label /\ empty(q)) =>
        (q2 = q /\ ret'[t] = Raised(op, "queue.Empty"))
  /\ (Steps(t) /\ pc[t] = put_label /\ ~full(q)) =>
        (q2 = Append(q, local[t].sample) /\ ret'[t] = Returned(op, "None"))
  /\ (Steps(t) /\ pc[t] = put_label /\ full(q)) =>
        (q2 = q /\ ret'[t] = Returned(op, "None"))

\* C8 (as amended): a call that finds its intake queue full removes at most
\* one queued sample, the oldest at that moment; it then enqueues the new
\* sample last, unless the queue has been refilled in between, in which case
\* the new sample is the one skipped; on a queue emptied in between it raises
\* queue.Empty and enqueues nothing.  The queue never exceeds its maxsize.
C8_DropOldestOrSkipNewest ==
  [][/\ Len(video_queue') <= QueueMaxsize
     /\ Len(audio_queue') <= QueueMaxsize
     /\ \A t \in Producers :
          /\ OverflowStep(t, "add_video_frame", "avf_get", "avf_put",
                          video_queue, video_queue')
          /\ OverflowStep(t, "add_audio_chunk", "aac_get", "aac_put",
                          audio_queue, audio_queue')]_vars

\* a producer has dropped the oldest frame and finds the queue full again
C8_Witness ==
  \E t \in Producers : pc[t] = "avf_put" /\ full(video_queue)

\* C8 (as stated): a call that finds its queue full drops exactly the oldest
\* queued sample and ends with the new sample in the queue.
C8_NewSampleNeverLost ==
  [][\A t \in Producers :
       /\ (Steps(t) /\ pc[t] = "avf_get") => video_queue' = Tail(video_queue)
       /\ (Steps(t) /\ pc[t] = "aac_get") => audio_queue' = Tail(audio_queue)
       /\ (pc[t] \in {"avf_get", "avf_put"} /\ pc'[t] = "idle") =>
             InSeq(local[t].sample, video_queue')
       /\ (pc[t] \in {"aac_get", "aac_put"} /\ pc'[t] = "idle") =>
             InSeq(local[t].sample, audio_queue')]_vars

\* C9: no call of add_video_frame or add_audio_chunk ends in an exception.
C9_AddNeverRaises ==
  \A t \in Producers : ret[t].out # "raise"

Elements(s) == {s[i] : i \in 1..Len(s)}

Position(s, x) == CHOOSE i \in 1..Len(s) : s[i] = x

NonDecreasing(s) ==
  \A i, j \in 1..Len(s) : i < j => s[i].timestamp <= s[j].timestamp

\* r is made of exactly the samples of buffer stamped at or after cutoff, each
\* once, in the order they have in buffer
IsWindowOf(r, buffer, cutoff) ==
  /\ Elements(r) = {x \in Elements(buffer) : x.timestamp >= cutoff}
  /\ \A i, j \in 1..Len(r) :
        i < j => Position(buffer, r[i]) < Position(buffer, r[j])

ReadStep(t, label, op, buffer, buffer2) ==
  (Steps(t) /\ pc[t] = label) =>
     /\ ret'[t].op = op
     /\ ret'[t].out = "return"
     /\ IsWindowOf(ret'[t].val, buffer, now - local[t].duration)
     /\ NonDecreasing(buffer) => NonDecreasing(ret'[t].val)
     /\ buffer2 = buffer

\* C5 (as amended): a ring-buffer read returns exactly the retained samples
\* whose timestamp is at or after the cutoff (now minus the duration), in the
\* order they were appended, which is non-decreasing timestamp order when the
\* samples were appended so; it returns the empty sequence when none qualify,
\* and it leaves the buffer as it was, so that a second read of an unchanged
\* buffer with the same cutoff returns an equal sequence.
C5_ReadReturnsWindowInAppendOrder ==
  [][\A t \in Clients :
       /\ ReadStep(t, "gvb_read", "get_video_buffer", video_buffer, video_buffer')
       /\ ReadStep(t, "gab_read", "get_audio_buffer", audio_buffer, audio_buffer')]_vars

\* a read has returned a later frame of the buffer and left out an earlier one
C5_Witness ==
  \E t \in Clients :
    /\ ret[t].op = "get_video_buffer"
    /\ \E i, j \in 1..Len(video_buffer) :
          /\ i < j
          /\ InSeq(video_buffer[j], ret[t].val)
          /\ ~InSeq(video_buffer[i], ret[t].val)

\* C5 (as stated): whatever timestamps the callers supply, what a ring-buffer
\* read returns is in non-decreasing timestamp order.
C5_ReadReturnsTimestampOrder ==
  \A t \in Clients :
    ret[t].op \in {"get_video_buffer", "get_audio_buffer"} =>
       NonDecreasing(ret[t].val)

RecorderFiles == <<video_file, audio_file, metadata_file, video_handles,
                   audio_handles>>

\* C2: for every incident id, a start_incident_recording call returns True
\* only by creating an entry that was not there, and returns False on an id
\* whose entry exists, leaving the registry, the files and the open writers as
\* they were; no id ever has more than one open video writer, more than one
\* open audio writer, or more than one creation since its last removal.  Two
\* concurrent starts of one id so end in one True and one False.
C2_OneRecorderPerId ==
  [][/\ \A k \in IncidentIds :
          /\ video_handles'[k] <= 1
          /\ audio_handles'[k] <= 1
          /\ created'[k] <= 1
     /\ \A t \in Clients :
          /\ (Steps(t) /\ pc[t] = "sir_create") =>
                /\ ~has(incident_recordings, local[t].incident_id)
                /\ has(incident_recordings', local[t].incident_id)
                /\ ret'[t] = Returned("start_incident_recording", TRUE)
          /\ (Steps(t) /\ pc[t] = "sir_check"
                /\ has(incident_recordings, local[t].incident_id)) =>
                /\ ret'[t] = Returned("start_incident_recording", FALSE)
                /\ UNCHANGED <<incident_recordings, RecorderFiles, created>>]_vars

\* the only two calls made were two starts, one accepted and one rejected
C2_Witness ==
  \E t1, t2 \in Clients :
    /\ calls = 2
    /\ ret[t1] = Returned("start_incident_recording", TRUE)
    /\ ret[t2] = Returned("start_incident_recording", FALSE)
    /\ Len(incident_recordings) = 1

\* C3: stop_incident_recording on an active id returns (and writes) metadata
\* whose video_frames_count is the number of add_incident_frame calls and
\* whose audio_chunks_count is the number of add_incident_audio calls made on
\* the id since its start, and removes the id from the registry.
C3_CycleCounts ==
  [][\A t \in Clients :
       (Steps(t) /\ pc[t] = "sir_body"
          /\ has(incident_recordings, local[t].incident_id)) =>
          /\ ret'[t].op = "stop_incident_recording"
          /\ ret'[t].val.incident_id = local[t].incident_id
          /\ ret'[t].val.video_frames_count = frame_calls[local[t].incident_id]
          /\ ret'[t].val.audio_chunks_count = audio_calls[local[t].incident_id]
          /\ metadata_file'[local[t].incident_id] = ret'[t].val
          /\ ~has(incident_recordings', local[t].incident_id)]_vars

\* a cycle with one frame and one chunk has been stopped
C3_Witness ==
  \E t \in Clients :
    /\ ret[t].op = "stop_incident_recording"
    /\ ret[t].val.video_frames_count = 1
    /\ ret[t].val.audio_chunks_count = 1
    /\ incident_recordings = <<>>

\* C6: stop_incident_recording on an id with no entry returns None, writes no
\* file, closes no writer, and leaves the registry, the ring buffers and the
\* queues unchanged.
C6_StopUnknownChangesNothing ==
  [][\A t \in Clients :
       (Steps(t) /\ pc[t] = "sir_body"
          /\ ~has(incident_recordings, local[t].incident_id)) =>
          /\ ret'[t] = Returned("stop_incident_recording", NoneMetadata)
          /\ UNCHANGED <<incident_recordings, RecorderFiles, video_buffer,
                         audio_buffer, video_queue, audio_queue>>]_vars

\* a stop has returned None while the other incident is being recorded
C6_Witness ==
  \E t \in Clients :
    /\ ret[t] = Returned("stop_incident_recording", NoneMetadata)
    /\ Len(incident_recordings) = 1
    /\ \A k \in IncidentIds : metadata_file[k] = NoneMetadata

\* C7: when a stop() that found recordings active returns, every one of them
\* has a metadata file with end_time >= start_time, and the registry is empty.
C7_StopFinalizesAll ==
  [][(pc[Main] = "stop_loop" /\ pc'[Main] = "idle"
        /\ local[Main].listed # <<>>) =>
       /\ \A i \in 1..Len(local[Main].listed) :
             /\ metadata_file'[local[Main].listed[i]] # NoneMetadata
             /\ metadata_file'[local[Main].listed[i]].end_time >=
                  metadata_file'[local[Main].listed[i]].start_time
       /\ incident_recordings' = <<>>]_vars

\* C10: a start_incident_recording that returns False leaves no entry for the
\* id and no open writer of the id.
C10_FailedStartLeavesNothing ==
  [][\A t \in Clients :
       (Steps(t) /\ pc[t] = "sir_create"
          /\ ret'[t] = Returned("start_incident_recording", FALSE)) =>
          /\ ~has(incident_recordings', local[t].incident_id)
          /\ video_handles'[local[t].incident_id] = 0
          /\ audio_handles'[local[t].incident_id] = 0]_vars

\* C1: a start_incident_recording that returns True has written the samples
\* held by the ring buffers to the incident's video and audio files, oldest
\* first, so that they precede whatever add_incident_frame and
\* add_incident_audio write later.
C1_PrerollWrittenAtStart ==
  [][\A t \in Clients :
       (Steps(t) /\ pc[t] = "sir_create"
          /\ ret'[t] = Returned("start_incident_recording", TRUE)) =>
          /\ video_file'[local[t].incident_id] = ids(video_buffer)
          /\ audio_file'[local[t].incident_id] = ids(audio_buffer)]_vars

\* C11: every stop attempt on an active recording finds neither writer already
\* closed (no writer is closed a second time) and leaves neither writer open
\* (both are closed, whatever fails in the attempt).
C11_SinksClosedExactlyOnce ==
  [][\A t \in Threads :
       (Steps(t) /\ pc[t] = "sir_body"
          /\ has(incident_recordings, local[t].incident_id)) =>
          /\ get(incident_recordings, local[t].incident_id).video_writer # "closed"
          /\ get(incident_recordings, local[t].incident_id).audio_writer # "closed"
          /\ video_handles'[local[t].incident_id] = 0
          /\ audio_handles'[local[t].incident_id] = 0]_vars

\* C12: a stop_incident_recording call on an active id returns the metadata,
\* writes the metadata file and removes the id, also when release() or
\* close() raises.
C12_CloseFailureStillFinalizes ==
  [][\A t \in Clients :
       (Steps(t) /\ pc[t] = "sir_body"
          /\ has(incident_recordings, local[t].incident_id)) =>
          /\ ret'[t].op = "stop_incident_recording"
          /\ ret'[t].val # NoneMetadata
          /\ metadata_file'[local[t].incident_id] = ret'[t].val
          /\ ~has(incident_recordings', local[t].incident_id)]_vars

\* C13: start_incident_recording never returns True for an id that has been
\* finalized (whose metadata file has been written).
C13_NoRestartAfterFinalized ==
  [][\A t \in Clients :
       (Steps(t) /\ pc[t] = "sir_create"
          /\ ret'[t] = Returned("start_incident_recording", TRUE)) =>
          metadata_file[local[t].incident_id] = NoneMetadata]_vars

\* C14: add_incident_frame and add_incident_audio on an id that has no entry
\* return without raising, write to no file, and leave the registry (every
\* other recording's counts and writers included) unchanged.
C14_AddUnknownChangesNothing ==
  [][\A t \in Clients :
       (Steps(t) /\ pc[t] \in {"aif_body", "aia_body"}
          /\ ~has(incident_recordings, local[t].incident_id)) =>
          /\ ret'[t].out = "return"
          /\ ret'[t].op \in {"add_incident_frame", "add_incident_audio"}
          /\ UNCHANGED <<incident_recordings, RecorderFiles>>]_vars

\* one recording was started and one frame was added, and the recording has
\* no frame: the frame was added to an id that had no entry
C14_Witness ==
  \E t1, t2 \in Clients :
    /\ calls = 2
    /\ ret[t1] = Returned("start_incident_recording", TRUE)
    /\ ret[t2] = Returned("add_incident_frame", "None")
    /\ Len(incident_recordings) = 1
    /\ incident_recordings[1].video_frames = 0

\* what a stop may change, at any level
StoppableState == <<is_monitoring, buffer_manager, is_running,
                    incident_recordings, RecorderFiles, video_queue,
                    audio_queue, video_buffer, audio_buffer, store>>

\* C15: a stop of something already stopped raises nothing and changes
\* nothing: stop_incident_recording on an id that has been finalized;
\* every step of BufferManager.stop() on a manager that is not running and
\* records nothing; stop_monitoring on a monitor that is not monitoring,
\* which returns at once without calling the buffer manager.
C15_SecondStopChangesNothing ==
  [][/\ \A t \in Clients :
          (Steps(t) /\ pc[t] = "sir_body"
             /\ ~has(incident_recordings, local[t].incident_id)
             /\ metadata_file[local[t].incident_id] # NoneMetadata) =>
             /\ ret'[t] = Returned("stop_incident_recording", NoneMetadata)
             /\ UNCHANGED StoppableState
     /\ (pc[Main] = "idle" /\ pc'[Main] = "stop_loop"
           /\ ~is_running /\ incident_recordings = <<>>) =>
           UNCHANGED StoppableState
     /\ (pc[Main] = "stop_loop" /\ Steps(Main) /\ local[Main].listed = <<>>) =>
           /\ pc'[Main] = "idle"
           /\ ret'[Main].out = "return"
           /\ UNCHANGED StoppableState
     /\ (pc[Main] = "idle" /\ pc'[Main] = "sm_stop") => is_monitoring
     /\ (pc[Main] = "idle" /\ ret'[Main] # ret[Main]
           /\ ret'[Main].op = "stop_monitoring") =>
           /\ ~is_monitoring
           /\ ret'[Main].val = "Monitoring not active"
           /\ UNCHANGED StoppableState]_vars

\* the monitor was started and stopped, and a further stop_monitoring has
\* returned
C15_Witness ==
  /\ buffer_manager >= 1
  /\ ~is_monitoring
  /\ ret[Main] = Returned("stop_monitoring", "Monitoring not active")

\* C16: the store is written exactly once per incident: one log_incident
\* statement for every incident process_incidents has handled, and one
\* record for every recording at the step of stop_incident_recording that
\* finalizes it.
C16_StoreWrittenOncePerIncident ==
  [][/\ \A n \in handled' : store'.incidents[n] = 1
     /\ \A t \in Clients :
          (Steps(t) /\ pc[t] = "sir_body"
             /\ has(incident_recordings, local[t].incident_id)
             /\ ~has(incident_recordings', local[t].incident_id)) =>
             store'.recordings[local[t].incident_id] =
               store.recordings[local[t].incident_id] + 1]_vars

\* the writer threads of modality m that have been started and have not
\* left their loop
alive(m) == {i \in WriterIds : writer_pc[m][i] \notin {"unborn", "exited"}}

\* C17: whatever the sequence of start() and stop() calls, at most one
\* writer thread per modality is alive at any time
C17_OneWriterPerModality ==
  \A m \in Modalities : Cardinality(alive(m)) <= 1

\* the samples of s stand in the order add_video_frame / add_audio_chunk
\* received them, none twice
InProductionOrder(s) == \A i, j \in 1..Len(s) : i < j => s[i].id < s[j].id

\* C19: with a single producer, each ring buffer holds at all times samples
\* in production order, each at most once
C19_BufferInProductionOrder ==
  /\ InProductionOrder(video_buffer)
  /\ InProductionOrder(audio_buffer)

\* C18: once is_running is False and start() is not called again, every
\* writer loop that was started eventually exits, whatever its queue holds
\* and whether or not the capture thread keeps adding
C18_WritersEventuallyExit ==
  \A m \in Modalities, i \in WriterIds :
     (~is_running /\ writer_pc[m][i] # "unborn") ~> (writer_pc[m][i] = "exited")

\* both loops have exited after stop() while the video queue still holds an
\* entry
C18_Witness ==
  /\ ~is_running
  /\ writer_pc["video"][1] = "exited"
  /\ writer_pc["audio"][1] = "exited"
  /\ ~empty(video_queue)
  /\ ret[Main] = Returned("stop", "None")

\* C20: in every reachable state each ingest queue holds at most maxsize
\* entries, however many add_video_frame / add_audio_chunk calls are made
\* and whether or not the writer threads run
C20_QueuesBounded ==
  /\ Len(video_queue) <= QueueMaxsize
  /\ Len(audio_queue) <= QueueMaxsize

\* the writer threads were never started, more frames were added than the
\* queue takes, and the queue is full
C20_Witness ==
  /\ video_thread = 0
  /\ produced["video"] > QueueMaxsize
  /\ \A t \in Producers : pc[t] = "idle"
  /\ Len(video_queue) = QueueMaxsize

\* C21: with several threads adding to one active id, no counter update is
\* lost: an active recorder's counts are the numbers of add calls that have
\* completed their critical section, and a stop, by a detection thread or by
\* stop(), reports the numbers completed before it took the lock.
C21_NoLostCount ==
  [][/\ \A k \in IncidentIds :
          has(incident_recordings', k) =>
             /\ get(incident_recordings', k).video_frames = frame_calls'[k]
             /\ get(incident_recordings', k).audio_chunks = audio_calls'[k]
     /\ \A t \in Threads :
          (Steps(t) /\ pc[t] = "sir_body"
             /\ has(incident_recordings, local[t].incident_id)) =>
             /\ metadata_file'[local[t].incident_id].video_frames_count =
                  frame_calls[local[t].incident_id]
             /\ metadata_file'[local[t].incident_id].audio_chunks_count =
                  audio_calls[local[t].incident_id]]_vars

\* both detection threads have added a frame to inc1, one of them waiting
\* for the lock while the other was inside, and the stop reported two
C21_Witness ==
  /\ ret["det1"] = Returned("add_incident_frame", "None")
  /\ ret["det2"] = Returned("add_incident_frame", "None")
  /\ metadata_file["inc1"].video_frames_count = 2
  /\ ~has(incident_recordings, "inc1")

Last(s) == s[Len(s)]

\* the step of thread t that completes an add call (position label, adding
\* to list field and file) on an active id: it returns None, the entry stays
\* with both writers as they were; a failed write leaves the file and the
\* entry unchanged, and a write that succeeds, after a failure or not, is
\* in the file and counted
AddStep(t, label, op, ok, file, file2) ==
  LET k == local[t].incident_id
      recording == get(incident_recordings, k)
      recording2 == get(incident_recordings', k)
  IN (Steps(t) /\ pc[t] = label /\ has(incident_recordings, k)) =>
        /\ ret'[t] = Returned(op, "None")
        /\ has(incident_recordings', k)
        /\ recording2.video_writer = "open"
        /\ recording2.audio_writer = "open"
        /\ UNCHANGED <<video_handles, audio_handles>>
        /\ IF Last(add_outcomes'[k]) = ok
             THEN /\ file2[k] = Append(file[k], LivePayload)
                  /\ recording2.video_frames + recording2.audio_chunks =
                       recording.video_frames + recording.audio_chunks + 1
             ELSE /\ file2[k] = file[k]
                  /\ recording2 = recording

\* C22: a sink write failure inside add_incident_frame / add_incident_audio
\* on an active id is absorbed: the call returns without raising, the
\* recorder stays in the registry with its sinks open, and later add calls
\* for the id are still written and counted.
C22_WriteFailureAbsorbed ==
  [][\A t \in Clients :
       /\ AddStep(t, "aif_body", "add_incident_frame", "frame_ok",
                  video_file, video_file')
       /\ AddStep(t, "aia_body", "add_incident_audio", "audio_ok",
                  audio_file, audio_file')]_vars

\* on inc1 a frame write failed, and the frame added after it is in the
\* file and counted
C22_Witness ==
  /\ add_outcomes["inc1"] = <<"frame_error", "frame_ok">>
  /\ has(incident_recordings, "inc1")
  /\ get(incident_recordings, "inc1").video_frames = 1
  /\ get(incident_recordings, "inc1").video_writer = "open"
  /\ video_file["inc1"] = <<LivePayload>>

\* the positions inside the four read operations
ReadLabels == {"gvb_read", "gab_read", "girs_body", "gs_video",
               "gs_audio_lock", "gs_audio", "gs_recording_lock",
               "gs_recording"}

\* thread t takes a step of a read operation: it enters one, moves inside
\* one or returns from one
ReadOperationStep(t) ==
  Steps(t) /\ (pc[t] \in ReadLabels \/ pc'[t] \in ReadLabels)

\* C23: get_video_buffer, get_audio_buffer, get_incident_recording_status
\* and get_status leave the ring buffers, the ingest queues, the registry
\* and every recorder's counts unchanged, and
\* get_incident_recording_status returns None, without raising, for an id
\* that has no entry (unknown or finalized).
C23_ReadsChangeNothing ==
  [][\A t \in Clients :
       /\ ReadOperationStep(t) =>
             UNCHANGED <<video_buffer, audio_buffer, video_queue, audio_queue,
                         incident_recordings, RecorderFiles>>
       /\ (Steps(t) /\ pc[t] = "girs_body"
             /\ ~has(incident_recordings, local[t].incident_id)) =>
             ret'[t] = Returned("get_incident_recording_status", NoneStatus)
       /\ (Steps(t) /\ pc[t] = "girs_body"
             /\ has(incident_recordings, local[t].incident_id)) =>
             /\ ret'[t].out = "return"
             /\ ret'[t].val.is_active
             /\ ret'[t].val.video_frames_count =
                  get(incident_recordings, local[t].incident_id).video_frames]_vars

\* the status of the finalized inc1 has been read as None while the buffers
\* hold a frame and a chunk
C23_Witness ==
  /\ ret["det1"] = Returned("get_incident_recording_status", NoneStatus)
  /\ metadata_file["inc1"] # NoneMetadata
  /\ ~has(incident_recordings, "inc1")
  /\ video_buffer # <<>>
  /\ audio_buffer # <<>>

\* C24: the registry and the lists of its entries change only in a step of
\* the thread that holds recording_lock, and a start holds the lock from
\* its membership test to its insert, the registry staying as tested
C24_RegistryMutatedUnderLock ==
  [][/\ incident_recordings' # incident_recordings =>
          \E t \in Threads : recording_lock = t /\ Steps(t)
     /\ \A t \in Threads :
          /\ pc[t] \in {"sir_check", "sir_create"} => recording_lock = t
          /\ (Steps(t) /\ pc[t] = "sir_check") =>
                UNCHANGED incident_recordings
          /\ (pc[t] = "sir_create" /\ ~Steps(t)) =>
                UNCHANGED incident_recordings]_vars

\* det1 is between the membership test and the insert of a start for inc1
\* while det2, whose start of inc2 made an entry, waits
C24_Witness ==
  /\ pc["det1"] = "sir_create"
  /\ local["det1"].incident_id = "inc1"
  /\ recording_lock = "det1"
  /\ ret["det2"] = Returned("start_incident_recording", TRUE)
  /\ has(incident_recordings, "inc2")

\* C25: no sink is written to after it has been closed: an add call that
\* finds the id's entry, and so calls write() / writeframes() on its
\* writer, never finds that writer released or closed
C25_NoWriteAfterClose ==
  [][\A t \in Clients :
       LET k == local[t].incident_id
       IN /\ (Steps(t) /\ pc[t] = "aif_body" /\ has(incident_recordings, k)) =>
                get(incident_recordings, k).video_writer # "closed"
          /\ (Steps(t) /\ pc[t] = "aia_body" /\ has(incident_recordings, k)) =>
                get(incident_recordings, k).audio_writer # "closed"]_vars

\* C26: start_incident_recording does not consult is_running: it returns
\* False only from its duplicate test, so a start of an absent id succeeds
\* while stop() runs and after it; and stop() touches no entry whose id it
\* did not list, so a recorder started after the listing is still in the
\* registry, unfinalized, when stop() returns.
C26_StartDuringStopNotFinalized ==
  [][/\ \A t \in Clients :
          /\ (/\ Steps(t) \/ ret'[t] # ret[t]
              /\ pc'[t] = "idle"
              /\ ret'[t] = Returned("start_incident_recording", FALSE)) =>
                (pc[t] = "sir_check" /\ has(incident_recordings, local[t].incident_id))
          /\ (Steps(t) /\ pc[t] = "sir_create") =>
                /\ ret'[t] = Returned("start_incident_recording", TRUE)
                /\ has(incident_recordings', local[t].incident_id)
     /\ \A k \in IncidentIds :
          (Steps(Main) /\ pc[Main] # "idle" /\ has(incident_recordings, k)
             /\ ~InSeq(k, local[Main].listed)) =>
             /\ has(incident_recordings', k)
             /\ get(incident_recordings', k) = get(incident_recordings, k)
             /\ metadata_file'[k] = metadata_file[k]]_vars

\* stop() has finalized inc1 and returned; inc2, started after stop() listed
\* the ids, is active with its writers open and the manager is not running
C26_Witness ==
  /\ ~is_running
  /\ video_thread > 0
  /\ ret[Main] = Returned("stop", "None")
  /\ metadata_file["inc1"] # NoneMetadata
  /\ ~has(incident_recordings, "inc1")
  /\ has(incident_recordings, "inc2")
  /\ get(incident_recordings, "inc2").video_writer = "open"
  /\ metadata_file["inc2"] = NoneMetadata

\* C27: for every active recorder, in every state, the frame count is the
\* number of frames written to its video file and the chunk count the
\* number of chunks written to its audio file
C27_CountedIffWritten ==
  \A k \in IncidentIds :
     has(incident_recordings, k) =>
        /\ get(incident_recordings, k).video_frames = Len(video_file[k])
        /\ get(incident_recordings, k).audio_chunks = Len(audio_file[k])

SampleIds == 1..MaxSamples

Queued(q, x) == \E i \in 1..Len(q) : q[i].id = x

\* a writer loop was started, stop() has cleared the flag and every loop
\* has exited
WritersExited == video_thread > 0 /\ ~is_running /\ NoLiveWriter

HeldBy(t) ==
  {l \in {"video_lock", "audio_lock", "recording_lock"} :
     \/ l = "video_lock" /\ video_lock = t
     \/ l = "audio_lock" /\ audio_lock = t
     \/ l = "recording_lock" /\ recording_lock = t}

\* the positions at which a call is about to enter a with block
EnteringLabels == {"idle", "stop_loop", "gs_audio_lock", "gs_recording_lock"}

\* the positions inside the with block of each lock, left by a step that
\* needs nothing but the lock it holds
InsideLabels(l) ==
  IF l = "video_lock" THEN {"gvb_read", "gs_video"}
  ELSE IF l = "audio_lock" THEN {"gab_read", "gs_audio"}
  ELSE {"sir_check", "sir_create", "aif_body", "aia_body", "sir_body",
        "girs_body", "gs_recording"}

\* C29: no thread holds more than one of video_lock, audio_lock and
\* recording_lock, no thread is about to acquire a lock while it holds one
\* (its own included), and every lock that is held is held by a thread
\* inside that lock's block, which leaves it without waiting for anything:
\* no reachable state is a deadlock.
C29_NoNestedLocks ==
  /\ \A t \in Threads :
        /\ Cardinality(HeldBy(t)) <= 1
        /\ pc[t] \in EnteringLabels => HeldBy(t) = {}
        /\ \A l \in HeldBy(t) : pc[t] \in InsideLabels(l)
  /\ video_lock \in Threads \cup {NoThread, "video_thread"}
  /\ audio_lock \in Threads \cup {NoThread, "audio_thread"}
  /\ recording_lock \in Threads \cup {NoThread}
  /\ video_lock = "video_thread" =>
        \E i \in WriterIds : writer_pc["video"][i] = "append"
  /\ audio_lock = "audio_thread" =>
        \E i \in WriterIds : writer_pc["audio"][i] = "append"

\* det1 holds video_lock inside get_status while the video writer waits
\* for it with a frame, and stop() holds recording_lock to finalize inc1
C29_Witness ==
  /\ pc["det1"] = "gs_video"
  /\ video_lock = "det1"
  /\ writer_pc["video"][1] = "lock"
  /\ recording_lock = Main
  /\ pc[Main] = "sir_body"
  /\ has(incident_recordings, "inc1")

\* the monitoring threads created so far
MonitoringThreads ==
  {<<"monitor_module", i>> : i \in {j \in MonitorThreadIds : module_pc[j] # "unborn"}}
    \cup
  {<<"process_incidents", i>> : i \in {j \in MonitorThreadIds : incident_pc[j] # "unborn"}}

====
